---------------------------- MODULE Spec2Model ----------------------------
(***************************************************************************)
(* Football-Web-Scrapping: the incident normalizer                         *)
(* (parse_incidents_to_cards_goals, parse_shotmap, extract_shots_rows,     *)
(* extract_goal_incidents) and the game-state timeline                     *)
(* (the reconstructor feeding prepare_gantt_data).                         *)
(***************************************************************************)
EXTENDS Integers, Sequences, FiniteSets, TLC

VARIABLES
    \* ---- timeline: reconstructor and gantt rendering
    goal_events,      \* ordered goal events handed to the reconstructor
    total_minutes,    \* match length including stoppage time
    injury_time_1,    \* first-half injury time
    home_score,       \* running score of the walk
    away_score,
    seg_start,        \* start minute of the segment that is open
    next_goal,        \* index of the next goal event to process
    segments,         \* segments emitted so far
    home_data,        \* prepare_gantt_data(segments, .., "home", ..)
    away_data,        \* prepare_gantt_data(segments, .., "away", ..)
    tl_pc,            \* "input" | "walk" | "reconstructed" | "rendered"
    \* ---- incidents feed
    incidents_json,   \* the fetched incidents payload
    inc_result,       \* result of parse_incidents_to_cards_goals
    goal_result,      \* result of extract_goal_incidents
    inc_pc,           \* "fetch" | "parsed"
    \* ---- shotmap feed
    shotmap_json,     \* the fetched shotmap payload
    shot_result,      \* result of parse_shotmap
    shot_rows_result, \* result of extract_shots_rows
    shot_pc,          \* "fetch" | "parsed"
    \* ---- single-fixture Fetch & Diff (cards, goals)
    stored_cards,     \* rows of table cards stored for the fixture
    stored_goals,     \* rows of table goals stored for the fixture
    new_cards,        \* card rows proposed for insertion
    new_goals,        \* goal rows proposed for insertion
    inserted,         \* the proposed lists inserted since the last diff
    prev_complete,    \* the round before this diff inserted all it proposed
    diff_round,       \* number of Fetch & Diff runs so far
    diff_pc,          \* "idle" | "ready" | "diffed"
    \* ---- add_players: extract_unique_players
    all_players,      \* player rows collected from the fixtures
    unique_players,   \* extract_unique_players(all_players)
    unique_again,     \* extract_unique_players(unique_players)
    uniq_pc,          \* "idle" | "collect" | "unique" | "again"
    \* ---- add_managers: upsert_managers_and_link_fixture
    mgr_rows_dict,    \* {"home": row or None, "away": row or None}
    mgr_fixture,      \* the manager columns of the fixture row
    mgr_before,       \* the same columns before the call
    mgr_call,         \* what the call did: upserted rows, update, return value
    mgr_pc,           \* "idle" | "ready" | "done"
    \* ---- season-level batch loops of the add_* pages
    batch_kind,       \* "none" | "shots" | "players" | "statistics" | "managers"
    fixtures,         \* the fixture rows the loop walks
    batch_idx,        \* number of fixtures the loop has been through
    batch,            \* the loop's lists and counters
    batch_outcomes,   \* what the fetches and parsers did for each fixture
    batch_pc          \* "idle" | "loop" | "done"

tl_vars   == <<goal_events, total_minutes, injury_time_1, home_score, away_score,
               seg_start, next_goal, segments, home_data, away_data, tl_pc>>
inc_vars  == <<incidents_json, inc_result, goal_result, inc_pc>>
shot_vars == <<shotmap_json, shot_result, shot_rows_result, shot_pc>>
diff_vars == <<stored_cards, stored_goals, new_cards, new_goals, inserted,
               prev_complete, diff_round, diff_pc>>
uniq_vars == <<all_players, unique_players, unique_again, uniq_pc>>
mgr_vars  == <<mgr_rows_dict, mgr_fixture, mgr_before, mgr_call, mgr_pc>>
batch_vars == <<batch_kind, fixtures, batch_idx, batch, batch_outcomes, batch_pc>>
rest_vars == <<uniq_vars, mgr_vars, batch_vars>>
ext_vars  == <<diff_vars, rest_vars>>
vars      == <<tl_vars, inc_vars, shot_vars, ext_vars>>

(***************************************************************************)
(* Bounds of the model.                                                    *)
(***************************************************************************)
MaxGoals == 3      \* goal events per match handed to the reconstructor
MaxFeed  == 2      \* items per fetched feed
MaxRounds == 3     \* Fetch & Diff runs on one fixture
MaxPlayers == 3    \* player rows handed to extract_unique_players
MaxFixtures == 3   \* fixtures of the season a batch loop walks

(***************************************************************************)
(* JSON / Python values.  A raw value keeps its Python type, so that       *)
(* `is True`, truthiness, int() and .get() can be modelled as they behave. *)
(***************************************************************************)
JNull      == [t |-> "null"]
JBool(b)   == [t |-> "bool", b |-> b]
JInt(n)    == [t |-> "int", n |-> n]
JStr(s)    == [t |-> "str", s |-> s]
\* a JSON object of which only the "id" member is read
JObj(id)   == [t |-> "dict", empty |-> FALSE, id |-> id]

IsNone(x)  == x.t = "null"
IsDict(x)  == x.t = "dict"

\* Python truthiness (bool(x))
Truthy(x) ==
    CASE x.t = "null" -> FALSE
      [] x.t = "bool" -> x.b
      [] x.t = "int"  -> x.n # 0
      [] x.t = "str"  -> x.s # ""
      [] x.t = "dict" -> ~x.empty

\* `a or b`
PyOr(a, b) == IF Truthy(a) THEN a ELSE b

\* x is True / x is False
IsTrue(x)  == x.t = "bool" /\ x.b
IsFalse(x) == x.t = "bool" /\ ~x.b

\* a key the object does not carry
JAbsent    == [t |-> "absent"]

\* d.get(k) and d.get(k, default) on an object modelled as a record
Get(d, k)        == IF d[k].t = "absent" THEN JNull ELSE d[k]
GetD(d, k, dflt) == IF d[k].t = "absent" THEN dflt ELSE d[k]

\* x.get("id") raises AttributeError unless x is a dict
GetIdRaises(x) == ~IsDict(x)
GetId(x)       == IF IsDict(x) /\ x.id.t # "absent" THEN x.id ELSE JNull

\* the empty dict {} of `x or {}` and of .get(k, {})
EmptyDict == [t |-> "dict", empty |-> TRUE, id |-> JAbsent]
\* {} is falsy, unlike a dict with members
OrEmptyDict(x) == IF Truthy(x) THEN x ELSE EmptyDict

\* the strings of the model that int() accepts
IntLiterals == {<<"7", 7>>, <<"45", 45>>}

\* int(x) for the value kinds of the model; TRUE when int(x) raises
IntRaises(x) ==
    CASE x.t = "int"  -> FALSE
      [] x.t = "bool" -> FALSE
      [] x.t = "str"  -> ~(\E p \in IntLiterals : p[1] = x.s)
      [] OTHER        -> TRUE

IntOf(x) ==
    CASE x.t = "int"  -> x.n
      [] x.t = "bool" -> IF x.b THEN 1 ELSE 0
      [] x.t = "str"  -> (CHOOSE p \in IntLiterals : p[1] = x.s)[2]

\* _safe_int: int(x) if x is not None else None; None on any exception
SafeInt(x) == IF IsNone(x) \/ IntRaises(x) THEN JNull ELSE JInt(IntOf(x))

(***************************************************************************)
(* TIMELINE.  The reconstructor (compute_game_states, imported by          *)
(* graph_renders.py from utils.api.incidents) walks the ordered goal       *)
(* events; prepare_gantt_data turns its segments into one row list per     *)
(* team.                                                                   *)
(***************************************************************************)
HalfLen == 45

\* minutes a goal event may carry, and the match lengths tried
GoalMinutes  == {0, 23, 45, 47, 90, 97}
TotalChoices == {90, 95}
InjuryChoices == {0, 2}

GoalEvent == [team : {"home", "away"}, matchMinute : GoalMinutes, isOwnGoal : BOOLEAN]

\* state of one team for a running score
StateOf(mine, theirs) ==
    IF mine > theirs THEN "winning"
    ELSE IF mine < theirs THEN "losing"
    ELSE "drawing"

\* half label of a segment: split at 45 + injury_time_1
SegmentHalf(start, inj1) == IF start < HalfLen + inj1 THEN "1st" ELSE "2nd"

Segment(start, end, hs, as, inj1) ==
    [start |-> start, end |-> end,
     home |-> StateOf(hs, as), away |-> StateOf(as, hs),
     half |-> SegmentHalf(start, inj1)]

\* the score after a goal: an own goal counts for the opposing team
ScoreAfterGoal_OwnGoalNotFlipped(hs, as, g) ==
    IF g.team = "home" THEN <<hs + 1, as>> ELSE <<hs, as + 1>>

ScoreAfterGoal(hs, as, g) ==
    IF (g.team = "home") # g.isOwnGoal
    THEN <<hs + 1, as>>
    ELSE <<hs, as + 1>>

\* where the segment closed by a goal ends
CloseAt_Coalesce(start, g) == IF g.matchMinute = start THEN start + 1 ELSE g.matchMinute

CloseAt(start, g) == g.matchMinute

\* prepare_gantt_data: one row per segment, for one team
GanttRow_WrongTeam(seg, team_name, team_type) ==
    [Team |-> team_name, Start |-> seg.start, End |-> seg.end,
     Duration |-> seg.end - seg.start, State |-> seg.home, Half |-> seg.half]

GanttRow_EndIsDuration(seg, team_name, team_type) ==
    [Team |-> team_name, Start |-> seg.start, End |-> seg.end - seg.start,
     Duration |-> seg.end - seg.start, State |-> seg[team_type], Half |-> seg.half]

GanttRow_SwapStartEnd(seg, team_name, team_type) ==
    [Team |-> team_name, Start |-> seg.end, End |-> seg.start,
     Duration |-> seg.end - seg.start, State |-> seg[team_type], Half |-> seg.half]

GanttRow(seg, team_name, team_type) ==
    [Team |-> team_name, Start |-> seg.start, End |-> seg.end,
     Duration |-> seg.end - seg.start, State |-> seg[team_type], Half |-> seg.half]

prepare_gantt_data(segs, team_name, team_type, inj1) ==
    [i \in 1..Len(segs) |-> GanttRow(segs[i], team_name, team_type)]

TimelineIdle ==
    /\ goal_events = <<>> /\ total_minutes = 0 /\ injury_time_1 = 0
    /\ home_score = 0 /\ away_score = 0 /\ seg_start = 0 /\ next_goal = 1
    /\ segments = <<>> /\ home_data = <<>> /\ away_data = <<>>
    /\ tl_pc = "idle"

InitTimeline ==
    /\ goal_events = <<>>
    /\ total_minutes \in TotalChoices
    /\ injury_time_1 \in InjuryChoices
    /\ home_score = 0 /\ away_score = 0 /\ seg_start = 0 /\ next_goal = 1
    /\ segments = <<>> /\ home_data = <<>> /\ away_data = <<>>
    /\ tl_pc = "input"

\* the caller hands over the goals in non-decreasing match_minute order
AddGoal ==
    /\ tl_pc = "input"
    /\ Len(goal_events) < MaxGoals
    /\ \E g \in GoalEvent :
          /\ Len(goal_events) > 0 => goal_events[Len(goal_events)].matchMinute <= g.matchMinute
          /\ goal_events' = Append(goal_events, g)
    /\ UNCHANGED <<total_minutes, injury_time_1, home_score, away_score, seg_start,
                   next_goal, segments, home_data, away_data, tl_pc>>

\* reconstruct starts: score 0-0, first segment opens at minute 0
BeginWalk ==
    /\ tl_pc = "input"
    /\ tl_pc' = "walk"
    /\ home_score' = 0 /\ away_score' = 0 /\ seg_start' = 0 /\ next_goal' = 1
    /\ segments' = <<>>
    /\ UNCHANGED <<goal_events, total_minutes, injury_time_1, home_data, away_data>>

\* one goal: close the open segment at its match_minute, update the score, reopen
ProcessGoal ==
    /\ tl_pc = "walk"
    /\ next_goal <= Len(goal_events)
    /\ LET g   == goal_events[next_goal]
           end == CloseAt(seg_start, g)
           sc  == ScoreAfterGoal(home_score, away_score, g)
       IN  /\ segments' = Append(segments,
                   Segment(seg_start, end, home_score, away_score, injury_time_1))
           /\ home_score' = sc[1]
           /\ away_score' = sc[2]
           /\ seg_start' = end
    /\ next_goal' = next_goal + 1
    /\ UNCHANGED <<goal_events, total_minutes, injury_time_1, home_data, away_data, tl_pc>>

\* after the last goal: the final segment runs to total_minutes
FinishWalk ==
    /\ tl_pc = "walk"
    /\ next_goal > Len(goal_events)
    /\ segments' = Append(segments,
            Segment(seg_start, total_minutes, home_score, away_score, injury_time_1))
    /\ tl_pc' = "reconstructed"
    /\ UNCHANGED <<goal_events, total_minutes, injury_time_1, home_score, away_score,
                   seg_start, next_goal, home_data, away_data>>

\* plot_game_state_gantt_split: the rows of both teams
Render ==
    /\ tl_pc = "reconstructed"
    /\ home_data' = prepare_gantt_data(segments, "Home FC", "home", injury_time_1)
    /\ away_data' = prepare_gantt_data(segments, "Away FC", "away", injury_time_1)
    /\ tl_pc' = "rendered"
    /\ UNCHANGED <<goal_events, total_minutes, injury_time_1, home_score, away_score,
                   seg_start, next_goal, segments>>


(***************************************************************************)
(* INCIDENTS FEED.  parse_incidents_to_cards_goals (pages/add_incidents.py) *)
(* and extract_goal_incidents (utils/api/incidents.py) read the same       *)
(* incidents payload.                                                      *)
(***************************************************************************)
home_team_id == 1
away_team_id == 2

\* base_row["time.injuryTime1"], base_row["time.injuryTime2"] of the fixture
base_injuryTime1 == 2
base_injuryTime2 == 4

SentinelMin == 900
HalfEnd2    == 90
HalfEndET1  == 105
HalfEndET2  == 120

\* _added_time_norm of parse_incidents_to_cards_goals
IncAddedTimeNorm_KeepSentinel(x) == SafeInt(x)

IncAddedTimeNorm(x) ==
    LET v == SafeInt(x) IN
    IF IsNone(v) \/ v.n >= SentinelMin THEN JNull ELSE v

\* _match_minute: None if minute is None, else minute + (added or 0)
MatchMinute(minute, added) ==
    IF IsNone(minute) THEN JNull
    ELSE JInt(minute.n + (IF Truthy(added) THEN added.n ELSE 0))

\* _team_from_flag
TeamFromFlag(is_home) ==
    IF IsTrue(is_home) THEN JInt(home_team_id)
    ELSE IF IsFalse(is_home) THEN JInt(away_team_id)
    ELSE JNull

\* _half_from_minute
HalfFromMinute_ExclusiveThresholds(minute) ==
    IF IsNone(minute) THEN JNull
    ELSE IF minute.n < HalfLen THEN JStr("1")
    ELSE IF minute.n < HalfEnd2 THEN JStr("2")
    ELSE IF minute.n < HalfEndET1 THEN JStr("ET1")
    ELSE IF minute.n < HalfEndET2 THEN JStr("ET2")
    ELSE JNull

HalfFromMinute(minute) ==
    IF IsNone(minute) THEN JNull
    ELSE IF minute.n <= HalfLen THEN JStr("1")
    ELSE IF minute.n <= HalfEnd2 THEN JStr("2")
    ELSE IF minute.n <= HalfEndET1 THEN JStr("ET1")
    ELSE IF minute.n <= HalfEndET2 THEN JStr("ET2")
    ELSE JNull

SubstitutionType == JStr("substitution")
MarkerTypes == {JStr("period"), JStr("injuryTime")}
CardType    == JStr("card")
CardClasses == {JStr("yellow"), JStr("red"), JStr("yellowRed"), JStr("secondYellow")}
GoalTypes   == {JStr("goal"), JStr("ownGoal"), JStr("penalty"), JStr("missedPenalty")}

\* the three card flags from incidentClass
CardFlags_SecondYellowNotRed(iclass) ==
    [yellow   |-> iclass \in {JStr("yellow"), JStr("yellowRed"), JStr("secondYellow")},
     yellow_2 |-> iclass \in {JStr("yellowRed"), JStr("secondYellow")},
     red      |-> iclass \in {JStr("red"), JStr("yellowRed")}]

CardFlags(iclass) ==
    [yellow   |-> iclass \in {JStr("yellow"), JStr("yellowRed"), JStr("secondYellow")},
     yellow_2 |-> iclass \in {JStr("yellowRed"), JStr("secondYellow")},
     red      |-> iclass \in {JStr("red"), JStr("yellowRed"), JStr("secondYellow")}]

\* is_own of a goal row: isOwnGoal or ownGoal or (itype == "ownGoal")
IsOwnGoalRow(inc, itype) ==
    Truthy(Get(inc, "isOwnGoal")) \/ Truthy(Get(inc, "ownGoal")) \/ itype = JStr("ownGoal")

\* the locals of one loop iteration (lines 275-283)
IncItype(inc)  == PyOr(Get(inc, "incidentType"), Get(inc, "type"))
IncIclass(inc) == Get(inc, "incidentClass")
IncMinute(inc) == SafeInt(Get(inc, "time"))
IncAdded(inc)  == IncAddedTimeNorm(Get(inc, "addedTime"))

IncBranch(inc) ==
    LET itype == IncItype(inc) IN
    IF itype = SubstitutionType THEN "substitution"
    ELSE IF itype \in MarkerTypes THEN "marker"
    ELSE IF itype = CardType \/ IncIclass(inc) \in CardClasses THEN "card"
    ELSE IF itype \in GoalTypes THEN "goal"
    ELSE "other"

\* does the iteration for item inc raise?  (.get on a non-dict item, .get on a
\* player / playerIn / playerOut that is neither falsy nor a dict)
IncItemRaises(inc) ==
    IF ~IsDict(inc) THEN TRUE
    ELSE CASE IncBranch(inc) = "substitution" ->
                 \/ GetIdRaises(OrEmptyDict(Get(inc, "playerIn")))
                 \/ GetIdRaises(OrEmptyDict(Get(inc, "playerOut")))
           [] IncBranch(inc) \in {"card", "goal"} ->
                 GetIdRaises(OrEmptyDict(Get(inc, "player")))
           [] OTHER -> FALSE

\* rows one item appends; `item` is the position of the item in the feed
\* (bookkeeping of the model, not a column)
IncItemSubs_NoIdCheck(inc, i) ==
    IF IncBranch(inc) # "substitution" THEN <<>>
    ELSE LET pin  == GetId(OrEmptyDict(Get(inc, "playerIn")))
             pout == GetId(OrEmptyDict(Get(inc, "playerOut")))
         IN  <<[flag |-> "on", player_id |-> SafeInt(pin),
                minute |-> IncMinute(inc), added_time |-> IncAdded(inc), item |-> i],
               [flag |-> "off", player_id |-> SafeInt(pout),
                minute |-> IncMinute(inc), added_time |-> IncAdded(inc), item |-> i]>>

IncItemSubs(inc, i) ==
    IF IncBranch(inc) # "substitution" THEN <<>>
    ELSE LET pin  == GetId(OrEmptyDict(Get(inc, "playerIn")))
             pout == GetId(OrEmptyDict(Get(inc, "playerOut")))
             on   == IF Truthy(pin)
                     THEN <<[flag |-> "on", player_id |-> SafeInt(pin),
                             minute |-> IncMinute(inc), added_time |-> IncAdded(inc),
                             item |-> i]>>
                     ELSE <<>>
             off  == IF Truthy(pout)
                     THEN <<[flag |-> "off", player_id |-> SafeInt(pout),
                             minute |-> IncMinute(inc), added_time |-> IncAdded(inc),
                             item |-> i]>>
                     ELSE <<>>
         IN  on \o off

IncItemCards(inc, i) ==
    IF IncBranch(inc) # "card" THEN <<>>
    ELSE LET f == CardFlags(IncIclass(inc)) IN
         <<[team_id      |-> SafeInt(TeamFromFlag(Get(inc, "isHome"))),
            player_id    |-> SafeInt(GetId(OrEmptyDict(Get(inc, "player")))),
            card_minute  |-> IncMinute(inc),
            match_minute |-> MatchMinute(IncMinute(inc), IncAdded(inc)),
            yellow       |-> f.yellow,
            yellow_2     |-> f.yellow_2,
            red          |-> f.red,
            added_time   |-> IncAdded(inc),
            item         |-> i]>>

IncItemGoals(inc, i) ==
    IF IncBranch(inc) # "goal" THEN <<>>
    ELSE <<[team_id      |-> SafeInt(TeamFromFlag(Get(inc, "isHome"))),
            player_id    |-> SafeInt(GetId(OrEmptyDict(Get(inc, "player")))),
            goal_minute  |-> IncMinute(inc),
            added_time   |-> IncAdded(inc),
            match_minute |-> MatchMinute(IncMinute(inc), IncAdded(inc)),
            half         |-> HalfFromMinute(IncMinute(inc)),
            type         |-> IncItype(inc),
            is_own_goal  |-> IsOwnGoalRow(inc, IncItype(inc)),
            item         |-> i]>>

\* the items the loop walks (lines 265-272); any payload that is neither a dict
\* nor a list takes the early return
IncItemsOf_ListOnly(payload) ==
    IF payload.shape = "list" THEN payload.items ELSE <<>>

IncItemsOf(payload) ==
    CASE payload.shape = "dict" -> payload.items
      [] payload.shape = "dict_nokey" -> <<>>
      [] payload.shape = "list" -> payload.items
      [] OTHER -> <<>>

RECURSIVE IncLoop(_, _, _)
IncLoop(items, i, acc) ==
    IF i > Len(items) THEN acc
    ELSE IF IncItemRaises(items[i]) THEN [acc EXCEPT !.raised = TRUE]
    ELSE IncLoop(items, i + 1,
                 [acc EXCEPT !.cards = @ \o IncItemCards(items[i], i),
                             !.goals = @ \o IncItemGoals(items[i], i),
                             !.subs  = @ \o IncItemSubs(items[i], i)])

NoIncResult == [raised |-> FALSE, cards |-> <<>>, goals |-> <<>>, subs |-> <<>>]

\* raised = TRUE: the call ended in an exception and returned nothing
parse_incidents_to_cards_goals(payload) ==
    LET r == IncLoop(IncItemsOf(payload), 1, NoIncResult) IN
    IF r.raised THEN [NoIncResult EXCEPT !.raised = TRUE] ELSE r


(***************************************************************************)
(* extract_goal_incidents (utils/api/incidents.py)                         *)
(***************************************************************************)
\* a comparison with an int (<=, >) raises TypeError unless x is a number
CmpRaises(x) == x.t \notin {"int", "bool"}

\* "1st" if incident.get("time") <= 45 else "2nd"
GoalEventHalf(inc) == IF IntOf(Get(inc, "time")) <= HalfLen THEN "1st" ELSE "2nd"

\* the key the code reads for the own-goal flag (line 28)
OwnGoalKey == "icidentClass"

\* does building and accounting the goal event of inc raise?
GoalEventRaises(inc) ==
    \/ CmpRaises(Get(inc, "time"))
    \/ GetIdRaises(GetD(inc, "player", EmptyDict))
    \/ (~IsNone(Get(inc, "addedTime")) /\ CmpRaises(Get(inc, "addedTime")))

\* which list the goal event goes to (lines 40-45)
GoalSide(inc) == IF Truthy(GetD(inc, "isHome", JBool(FALSE))) THEN "home" ELSE "away"

goal_event(inc, i) ==
    [minute    |-> Get(inc, "time"),
     half      |-> GoalEventHalf(inc),
     addedTime |-> Get(inc, "addedTime"),
     playerId  |-> GetId(GetD(inc, "player", EmptyDict)),
     isOwnGoal |-> (Get(inc, OwnGoalKey) = JStr("ownGoal")),
     type      |-> GetD(inc, "incidentClass", JStr("regular")),
     teamId    |-> IF GoalSide(inc) = "home" THEN home_team_id ELSE away_team_id,
     item      |-> i]

\* the running maximum of one half's injury time (lines 32-38)
MaxInjury_Overwrite(cur, ev, half) ==
    IF ev.half = half /\ ~IsNone(ev.addedTime) THEN IntOf(ev.addedTime) ELSE cur

MaxInjury(cur, ev, half) ==
    IF ev.half = half /\ ~IsNone(ev.addedTime) /\ IntOf(ev.addedTime) > cur
    THEN IntOf(ev.addedTime)
    ELSE cur

RECURSIVE GoalLoop(_, _, _)
GoalLoop(items, i, acc) ==
    IF i > Len(items) THEN acc
    ELSE IF ~IsDict(items[i]) THEN [acc EXCEPT !.raised = TRUE]
    ELSE IF Get(items[i], "incidentType") # JStr("goal") THEN GoalLoop(items, i + 1, acc)
    ELSE IF GoalEventRaises(items[i]) THEN [acc EXCEPT !.raised = TRUE]
    ELSE LET ev == goal_event(items[i], i) IN
         GoalLoop(items, i + 1,
            [acc EXCEPT !.max_injuryTime1 = MaxInjury(@, ev, "1st"),
                        !.max_injuryTime2 = MaxInjury(@, ev, "2nd"),
                        !.home_goals = IF GoalSide(items[i]) = "home" THEN Append(@, ev) ELSE @,
                        !.away_goals = IF GoalSide(items[i]) = "home" THEN @ ELSE Append(@, ev)])

NoGoalResult ==
    [raised |-> FALSE,
     max_injuryTime1 |-> base_injuryTime1, max_injuryTime2 |-> base_injuryTime2,
     home_goals |-> <<>>, away_goals |-> <<>>]

\* incidents.get("incidents", []) needs a dict; raised = TRUE: no value returned
extract_goal_incidents(payload) ==
    IF payload.shape \notin {"dict", "dict_nokey"}
    THEN [NoGoalResult EXCEPT !.raised = TRUE]
    ELSE LET r == GoalLoop(IncItemsOf(payload), 1, NoGoalResult) IN
         IF r.raised THEN [NoGoalResult EXCEPT !.raised = TRUE] ELSE r

\* plot_game_state_gantt_split, the half a goal marker is drawn in
\* (graph_renders.py lines 95-96): minute + (addedTime or 0) against
\* 45 + injury_time_1
GoalMarkerHalf(g, inj1) ==
    LET goal_minute == IntOf(g.minute)
                         + (IF Truthy(g.addedTime) THEN IntOf(g.addedTime) ELSE 0)
    IN  IF goal_minute < HalfLen + inj1 THEN "1st" ELSE "2nd"

(***************************************************************************)
(* The incidents payloads of the model.  The parsers compute the branch    *)
(* from the discriminators, the team from isHome and the minutes from time *)
(* and addedTime, each on its own: every family of items varies the fields *)
(* one of these computations reads and holds the others at a plain value.  *)
(***************************************************************************)
Inc(itype, iclass, ishome, time, added) ==
    [t |-> "dict", incidentType |-> itype, type |-> JAbsent,
     incidentClass |-> iclass, icidentClass |-> JAbsent,
     isHome |-> ishome, time |-> time, addedTime |-> added,
     player |-> JObj(JInt(10)), playerIn |-> JAbsent, playerOut |-> JAbsent,
     isOwnGoal |-> JAbsent, ownGoal |-> JAbsent, team |-> JAbsent]

FeedTypes   == {JAbsent, JStr("goal"), JStr("card"), JStr("substitution"),
                JStr("period"), JStr("ownGoal"), JStr("Goal")}
FeedClasses == {JAbsent, JStr("yellow"), JStr("red"), JStr("yellowRed"),
                JStr("secondYellow"), JStr("ownGoal"), JStr("Yellow")}
FeedFlags   == {JBool(TRUE), JBool(FALSE), JAbsent, JNull, JInt(1), JStr("home")}
FeedTimes   == {JNull, JInt(45), JInt(46)}
FeedAdded   == {JAbsent, JInt(0), JInt(3), JInt(899), JInt(900), JInt(999)}
FeedPlayers == {JAbsent, JObj(JInt(7)), JObj(JAbsent)}

DispatchItems ==
    {Inc(ty, cl, JBool(TRUE), JInt(23), JAbsent) : ty \in FeedTypes, cl \in FeedClasses}
FallbackItems ==
    {[Inc(JAbsent, JAbsent, JBool(TRUE), JInt(23), JAbsent) EXCEPT !.type = ty] :
        ty \in {JStr("goal"), JStr("card")}}
TimeItems ==
    {[Inc(tc[1], tc[2], JBool(FALSE), tm, ad) EXCEPT !.playerIn = JObj(JInt(7))] :
        tc \in {<<JStr("goal"), JAbsent>>, <<JStr("card"), JStr("yellow")>>,
                <<JStr("substitution"), JAbsent>>},
        tm \in FeedTimes, ad \in FeedAdded}
TeamItems ==
    {Inc(tc[1], tc[2], fl, JInt(23), JInt(0)) :
        tc \in {<<JStr("goal"), JAbsent>>, <<JStr("card"), JStr("red")>>},
        fl \in FeedFlags}
SubItems ==
    {[Inc(JStr("substitution"), JAbsent, JBool(TRUE), JInt(60), JAbsent)
        EXCEPT !.playerIn = pin, !.playerOut = pout] :
        pin \in FeedPlayers, pout \in FeedPlayers}
OwnGoalItems ==
    {[Inc(JStr("goal"), cl, JBool(TRUE), JInt(10), JAbsent) EXCEPT !.isOwnGoal = og] :
        cl \in {JStr("ownGoal"), JStr("regular")}, og \in {JAbsent, JBool(TRUE)}}

\* the feeds of the two incident specifications: items that differ in the
\* discriminators and players, and items that differ in the clock and side fields
DispatchFeed == DispatchItems \cup FallbackItems \cup SubItems \cup OwnGoalItems
FieldFeed    == TimeItems \cup TeamItems

\* items at the edges of the feed contract
\* the clock minutes around the thresholds of _half_from_minute
HalfTimes == {JNull, JInt(45), JInt(46), JInt(90), JInt(91), JInt(105), JInt(106),
              JInt(120), JInt(121)}
HalfItems ==
    {Inc(JStr("goal"), JAbsent, JBool(TRUE), tm, ad) :
        tm \in HalfTimes, ad \in {JAbsent, JInt(3)}}
\* an explicit team (object with an id, or integer) next to the isHome flag
ExplicitTeamItems ==
    {[Inc(tc[1], tc[2], fl, JInt(30), JAbsent) EXCEPT !.team = tm] :
        tc \in {<<JStr("goal"), JAbsent>>, <<JStr("card"), JStr("yellow")>>},
        fl \in {JBool(TRUE), JBool(FALSE)},
        tm \in {JObj(JInt(99)), JInt(99)}}
\* discriminators outside the vocabulary, and period / injuryTime markers
UnknownTypeItems ==
    {Inc(ty, cl, JBool(TRUE), JInt(30), JAbsent) :
        ty \in {JStr("foul"), JStr("varDecision")},
        cl \in {JAbsent, JStr("yellow"), JStr("regular")}}
MarkerItems ==
    {Inc(ty, cl, JBool(TRUE), JInt(45), JInt(999)) :
        ty \in {JStr("period"), JStr("injuryTime")}, cl \in {JAbsent, JStr("yellow")}}
\* items that are not objects, and objects with fields of the wrong kind
NonObjectItems == {JNull, JStr("x"), JInt(5)}
BadPlayerItems ==
    {[Inc(JStr("goal"), JAbsent, JBool(TRUE), JInt(30), JAbsent) EXCEPT !.player = pl] :
        pl \in {JStr("x"), JInt(9)}}
    \cup {[Inc(JStr("card"), JStr("red"), JBool(TRUE), JInt(30), JAbsent)
              EXCEPT !.player = JStr("x")]}
    \cup {[Inc(JStr("substitution"), JAbsent, JBool(TRUE), JInt(30), JAbsent)
              EXCEPT !.playerIn = JStr("x")]}
BadClockItems ==
    {Inc(JStr("goal"), JAbsent, JBool(TRUE), tm, JAbsent) :
        tm \in {JAbsent, JStr("abc"), JStr("45")}}
    \cup {Inc(JStr("goal"), JAbsent, JBool(TRUE), JInt(30), JStr("abc"))}

EdgeFeed ==
    HalfItems \cup ExplicitTeamItems \cup UnknownTypeItems \cup MarkerItems
        \cup NonObjectItems \cup BadPlayerItems \cup BadClockItems

\* the top-level payloads: a bare list, a dict with / without the key, None, a
\* string, a number
PayloadShapes == {"list", "dict", "dict_nokey", "none", "str", "int"}

IncidentsIdle ==
    /\ incidents_json = [shape |-> "none", items |-> <<>>]
    /\ inc_result = NoIncResult
    /\ goal_result = NoGoalResult
    /\ inc_pc = "idle"

InitIncidents ==
    /\ incidents_json \in [shape : PayloadShapes, items : {<<>>}]
    /\ inc_result = NoIncResult
    /\ goal_result = NoGoalResult
    /\ inc_pc = "fetch"

\* the fetch collaborator delivers the payload, item by item
FetchIncident(feed) ==
    /\ inc_pc = "fetch"
    /\ incidents_json.shape \in {"list", "dict"}
    /\ Len(incidents_json.items) < MaxFeed
    /\ \E inc \in feed :
          incidents_json' = [incidents_json EXCEPT !.items = Append(@, inc)]
    /\ UNCHANGED <<inc_result, goal_result, inc_pc>>

\* both parsers run over the payload
ParseIncidents ==
    /\ inc_pc = "fetch"
    /\ inc_result' = parse_incidents_to_cards_goals(incidents_json)
    /\ goal_result' = extract_goal_incidents(incidents_json)
    /\ inc_pc' = "parsed"
    /\ UNCHANGED incidents_json


(***************************************************************************)
(* SHOTMAP FEED.  parse_shotmap (pages/add_incidents.py) and               *)
(* extract_shots_rows (pages/add_shots.py).  The xG and coordinate columns *)
(* are copied through _safe_float and are left out.                        *)
(***************************************************************************)
\* str.lower() on the strings of the model that are not lower case already
LowerTable == {<<"Goal", "goal">>, <<"SAVE", "save">>}
Lower(s) == IF \E p \in LowerTable : p[1] = s
            THEN (CHOOSE p \in LowerTable : p[1] = s)[2]
            ELSE s

\* _added_time_norm of parse_shotmap: None if missing, else the integer
ShotAddedTimeNorm(x) == SafeInt(x)

\* _flags_from_type: (shot_type or "").lower() needs a str
FlagsRaises(shot_type) == Truthy(shot_type) /\ shot_type.t # "str"

FlagsFromType(shot_type) ==
    LET st == IF Truthy(shot_type) THEN Lower(shot_type.s) ELSE "" IN
    [is_goal      |-> st = "goal",
     is_on_target |-> st \in {"goal", "save"},
     is_blocked   |-> st = "block",
     hit_post     |-> st = "post"]

ShotItemRaises(s) ==
    \/ ~IsDict(s)
    \/ GetIdRaises(OrEmptyDict(Get(s, "player")))
    \/ FlagsRaises(Get(s, "shotType"))

ShotRow(s, i) ==
    LET minute == SafeInt(Get(s, "time"))
        added  == ShotAddedTimeNorm(Get(s, "addedTime"))
        f      == FlagsFromType(Get(s, "shotType"))
    IN  [team_id      |-> TeamFromFlag(Get(s, "isHome")),
         player_id    |-> SafeInt(GetId(OrEmptyDict(Get(s, "player")))),
         minute       |-> minute,
         added_time   |-> added,
         match_minute |-> MatchMinute(minute, added),
         half         |-> HalfFromMinute(minute),
         shot_type    |-> Get(s, "shotType"),
         goal_type    |-> Get(s, "goalType"),
         situation    |-> Get(s, "situation"),
         is_goal      |-> f.is_goal,
         is_on_target |-> f.is_on_target,
         is_blocked   |-> f.is_blocked,
         hit_post     |-> f.hit_post,
         is_penalty   |-> (Get(s, "situation") = JStr("penalty")
                             \/ Get(s, "goalType") = JStr("penalty")),
         item         |-> i]

\* the items the loop walks: {"shotmap": [...]} or a plain list
ShotItemsOf(payload) ==
    CASE payload.shape = "dict" -> payload.items
      [] payload.shape = "dict_nokey" -> <<>>
      [] payload.shape = "list" -> payload.items
      [] OTHER -> <<>>

RECURSIVE ShotLoop(_, _, _)
ShotLoop(items, i, acc) ==
    IF i > Len(items) THEN acc
    ELSE IF ShotItemRaises(items[i]) THEN [acc EXCEPT !.raised = TRUE]
    ELSE ShotLoop(items, i + 1, [acc EXCEPT !.rows = Append(@, ShotRow(items[i], i))])

NoShotResult == [raised |-> FALSE, rows |-> <<>>]

parse_shotmap(payload) ==
    LET r == ShotLoop(ShotItemsOf(payload), 1, NoShotResult) IN
    IF r.raised THEN [NoShotResult EXCEPT !.raised = TRUE] ELSE r

\* extract_shots_rows: a shot without a (non-zero) id is skipped
ExtractShotRaises(s) ==
    \/ ~IsDict(s)
    \/ GetIdRaises(OrEmptyDict(Get(s, "player")))

ExtractShotRow(s, i) ==
    [player_id  |-> SafeInt(GetId(OrEmptyDict(Get(s, "player")))),
     team_id    |-> TeamFromFlag(Get(s, "isHome")),
     shot_type  |-> Get(s, "shotType"),
     goal_type  |-> Get(s, "goalType"),
     situation  |-> Get(s, "situation"),
     shot_id    |-> SafeInt(Get(s, "id")),
     minute     |-> SafeInt(Get(s, "time")),
     added_time |-> SafeInt(Get(s, "addedTime")),
     item       |-> i]

RECURSIVE ExtractShotLoop(_, _, _)
ExtractShotLoop(items, i, acc) ==
    IF i > Len(items) THEN acc
    ELSE IF ExtractShotRaises(items[i]) THEN [acc EXCEPT !.raised = TRUE]
    ELSE IF ~Truthy(SafeInt(Get(items[i], "id"))) THEN ExtractShotLoop(items, i + 1, acc)
    ELSE ExtractShotLoop(items, i + 1,
                         [acc EXCEPT !.rows = Append(@, ExtractShotRow(items[i], i))])

extract_shots_rows(payload) ==
    LET r == ExtractShotLoop(ShotItemsOf(payload), 1, NoShotResult) IN
    IF r.raised THEN [NoShotResult EXCEPT !.raised = TRUE] ELSE r

\* the shotmap payloads of the model
Shot(stype, ishome, time, added) ==
    [t |-> "dict", player |-> JObj(JInt(10)), isHome |-> ishome, id |-> JInt(501),
     time |-> time, addedTime |-> added, shotType |-> stype,
     goalType |-> JAbsent, situation |-> JStr("regular")]

ShotTypes == {JAbsent, JStr("goal"), JStr("save"), JStr("block"), JStr("miss"),
              JStr("post"), JStr("Goal"), JStr("SAVE"), JStr("header")}

ShotTypeItems == {Shot(st, JBool(TRUE), JInt(23), JAbsent) : st \in ShotTypes}
ShotTimeItems ==
    {Shot(JStr("miss"), JBool(FALSE), tm, ad) : tm \in FeedTimes, ad \in FeedAdded}
ShotTeamItems == {Shot(JStr("save"), fl, JInt(23), JInt(0)) : fl \in FeedFlags}
ShotIdItems ==
    {[Shot(JStr("block"), JBool(TRUE), JInt(70), JAbsent) EXCEPT !.id = id] :
        id \in {JAbsent, JInt(0), JInt(502)}}
ShotPenaltyItems ==
    {[Shot(JStr("goal"), JBool(TRUE), JInt(80), JAbsent)
        EXCEPT !.goalType = gt, !.situation = si] :
        gt \in {JAbsent, JStr("penalty")}, si \in {JStr("regular"), JStr("penalty")}}

ShotItems ==
    ShotTypeItems \cup ShotTimeItems \cup ShotTeamItems \cup ShotIdItems
        \cup ShotPenaltyItems

\* shots at the edges of the feed contract
ShotHalfItems ==
    {Shot(JStr("goal"), JBool(TRUE), tm, ad) : tm \in HalfTimes, ad \in {JAbsent, JInt(3)}}
BadShotItems ==
    {JNull, JStr("x"),
     [Shot(JStr("miss"), JBool(TRUE), JInt(30), JAbsent) EXCEPT !.player = JStr("x")],
     Shot(JInt(3), JBool(TRUE), JInt(30), JAbsent),
     Shot(JStr("miss"), JBool(TRUE), JStr("abc"), JAbsent)}

EdgeShots == ShotHalfItems \cup BadShotItems

ShotsIdle ==
    /\ shotmap_json = [shape |-> "none", items |-> <<>>]
    /\ shot_result = NoShotResult
    /\ shot_rows_result = NoShotResult
    /\ shot_pc = "idle"

InitShots ==
    /\ shotmap_json \in [shape : PayloadShapes, items : {<<>>}]
    /\ shot_result = NoShotResult
    /\ shot_rows_result = NoShotResult
    /\ shot_pc = "fetch"

FetchShot(feed) ==
    /\ shot_pc = "fetch"
    /\ shotmap_json.shape \in {"list", "dict"}
    /\ Len(shotmap_json.items) < MaxFeed
    /\ \E s \in feed :
          shotmap_json' = [shotmap_json EXCEPT !.items = Append(@, s)]
    /\ UNCHANGED <<shot_result, shot_rows_result, shot_pc>>

ParseShots ==
    /\ shot_pc = "fetch"
    /\ shot_result' = parse_shotmap(shotmap_json)
    /\ shot_rows_result' = extract_shots_rows(shotmap_json)
    /\ shot_pc' = "parsed"
    /\ UNCHANGED shotmap_json

(***************************************************************************)
(* FETCH & DIFF of one fixture (pages/add_incidents.py, lines 539-693): the *)
(* card and goal rows parsed from the incidents feed are compared with the *)
(* keys stored for the fixture, and the rows that are new are proposed and  *)
(* may be inserted.  The players, managers and shots diffs of the same     *)
(* handler are independent of these two and are left out.                  *)
(***************************************************************************)
\* the key of a parsed card row (lines 600-608) and of a stored one (66-74)
CardKey(r) ==
    <<r.player_id, r.team_id, r.card_minute, r.added_time, r.yellow, r.yellow_2, r.red>>
StoredCardKey(r) ==
    <<r.player_id, r.team_id, r.card_minute, r.added_time, r.yellow, r.yellow_2, r.red>>

\* the key of a parsed goal row (lines 616-623) and of a stored one (84-91)
GoalKey(r) ==
    <<r.player_id, r.team_id, r.goal_minute, r.added_time, r.type, r.is_own_goal>>
StoredGoalKey_MatchMinute(r) ==
    <<r.player_id, r.team_id, r.match_minute, r.added_time, r.type, r.is_own_goal>>
StoredGoalKey(r) ==
    <<r.player_id, r.team_id, r.goal_minute, r.added_time, r.type, r.is_own_goal>>

get_existing_cards_for_fixture(stored) == {StoredCardKey(stored[i]) : i \in 1..Len(stored)}
get_existing_goals_for_fixture(stored) == {StoredGoalKey(stored[i]) : i \in 1..Len(stored)}

\* the two diff loops: the parsed rows whose key is not stored, in order
DiffCards_ByPlayerOnly(card_rows, existing_card_keys) ==
    SelectSeq(card_rows,
              LAMBDA r : \A k \in existing_card_keys : k[1] # r.player_id)
DiffCards(card_rows, existing_card_keys) ==
    SelectSeq(card_rows, LAMBDA r : CardKey(r) \notin existing_card_keys)
DiffGoals(goal_rows, existing_goal_keys) ==
    SelectSeq(goal_rows, LAMBDA r : GoalKey(r) \notin existing_goal_keys)

\* the incidents of the fixture: two cards and two goals of one player
DiffFeed ==
    {Inc(JStr("card"), JStr("yellow"), JBool(TRUE), JInt(30), JAbsent),
     Inc(JStr("card"), JStr("red"), JBool(TRUE), JInt(60), JAbsent),
     Inc(JStr("goal"), JAbsent, JBool(TRUE), JInt(23), JAbsent),
     Inc(JStr("goal"), JAbsent, JBool(TRUE), JInt(45), JInt(3))}

\* what the tables may hold for the fixture before the first run: nothing, or
\* one row of an earlier ingest
StoredCardChoices ==
    {<<>>} \cup {IncItemCards(inc, 0) : inc \in {x \in DiffFeed : IncBranch(x) = "card"}}
StoredGoalChoices ==
    {<<>>} \cup {IncItemGoals(inc, 0) : inc \in {x \in DiffFeed : IncBranch(x) = "goal"}}

DiffIdle ==
    /\ stored_cards = <<>> /\ stored_goals = <<>>
    /\ new_cards = <<>> /\ new_goals = <<>>
    /\ inserted = {}
    /\ prev_complete = FALSE
    /\ diff_round = 0
    /\ diff_pc = "idle"

InitDiff ==
    /\ stored_cards \in StoredCardChoices
    /\ stored_goals \in StoredGoalChoices
    /\ new_cards = <<>> /\ new_goals = <<>>
    /\ inserted = {}
    /\ prev_complete = FALSE
    /\ diff_round = 0
    /\ diff_pc = "ready"

\* the "Fetch & Diff" button: fetch, parse, diff (the feed stays as fetched)
FetchAndDiff ==
    /\ diff_pc \in {"ready", "diffed"}
    /\ diff_round < MaxRounds
    /\ LET r == parse_incidents_to_cards_goals(incidents_json) IN
       /\ inc_result' = r
       /\ new_cards' = DiffCards(r.cards, get_existing_cards_for_fixture(stored_cards))
       /\ new_goals' = DiffGoals(r.goals, get_existing_goals_for_fixture(stored_goals))
    /\ inc_pc' = "parsed"
    /\ prev_complete' = /\ diff_pc = "diffed"
                        /\ (new_cards = <<>> \/ "cards" \in inserted)
                        /\ (new_goals = <<>> \/ "goals" \in inserted)
    /\ inserted' = {}
    /\ diff_round' = diff_round + 1
    /\ diff_pc' = "diffed"
    /\ UNCHANGED <<incidents_json, goal_result, stored_cards, stored_goals>>

\* the "Insert Cards" button (lines 676-681)
InsertCards ==
    /\ diff_pc = "diffed"
    /\ new_cards # <<>>
    /\ "cards" \notin inserted
    /\ stored_cards' = stored_cards \o new_cards
    /\ inserted' = inserted \cup {"cards"}
    /\ UNCHANGED <<inc_vars, stored_goals, new_cards, new_goals, prev_complete,
                   diff_round, diff_pc>>

\* the "Insert Goals" button (lines 685-687)
InsertGoals ==
    /\ diff_pc = "diffed"
    /\ new_goals # <<>>
    /\ "goals" \notin inserted
    /\ stored_goals' = stored_goals \o new_goals
    /\ inserted' = inserted \cup {"goals"}
    /\ UNCHANGED <<inc_vars, stored_cards, new_cards, new_goals, prev_complete,
                   diff_round, diff_pc>>

(***************************************************************************)
(* extract_unique_players (pages/add_players.py, lines 79-100).  A player  *)
(* row is modelled by four of its six columns.                             *)
(***************************************************************************)
PlayerRow(pid, name, short_name, team_id) ==
    [player_id |-> pid, name |-> name, short_name |-> short_name, team_id |-> team_id]

\* sum(1 for v in row.values() if v is None)
NullCount(row) ==
    Cardinality({f \in {"player_id", "name", "short_name", "team_id"} : IsNone(row[f])})

\* current_null_count < existing_null_count
KeepCurrent_OnTie(current_null_count, existing_null_count) ==
    current_null_count <= existing_null_count
KeepCurrent(current_null_count, existing_null_count) ==
    current_null_count < existing_null_count

\* position of the record kept for pid in the dict (0: pid not in the dict)
PosOf(acc, pid) ==
    IF \E k \in 1..Len(acc) : acc[k].player_id = pid
    THEN CHOOSE k \in 1..Len(acc) : acc[k].player_id = pid
    ELSE 0

RECURSIVE UniqueLoop(_, _, _)
UniqueLoop(players, i, acc) ==
    IF i > Len(players) THEN acc
    ELSE LET player == players[i]
             pid    == player.player_id
             k      == PosOf(acc, pid)
         IN  IF ~Truthy(pid) THEN UniqueLoop(players, i + 1, acc)
             ELSE IF k = 0 THEN UniqueLoop(players, i + 1, Append(acc, player))
             ELSE IF KeepCurrent(NullCount(player), NullCount(acc[k]))
                  THEN UniqueLoop(players, i + 1, [acc EXCEPT ![k] = player])
                  ELSE UniqueLoop(players, i + 1, acc)

\* list(unique_players.values()): a dict keeps the order of first insertion
extract_unique_players(players) == UniqueLoop(players, 1, <<>>)

PlayerChoices ==
    {PlayerRow(pid, nm[1], nm[2], tm) :
        pid \in {JNull, JInt(0), JInt(7), JInt(8)},
        nm \in {<<JStr("A"), JStr("a")>>, <<JStr("A"), JNull>>, <<JNull, JNull>>},
        tm \in {JInt(1), JInt(2)}}

UniqueIdle ==
    /\ all_players = <<>> /\ unique_players = <<>> /\ unique_again = <<>>
    /\ uniq_pc = "idle"

InitUnique ==
    /\ all_players = <<>> /\ unique_players = <<>> /\ unique_again = <<>>
    /\ uniq_pc = "collect"

\* all_players.extend(players) of the batch loop, one row at a time
CollectPlayer ==
    /\ uniq_pc = "collect"
    /\ Len(all_players) < MaxPlayers
    /\ \E p \in PlayerChoices : all_players' = Append(all_players, p)
    /\ UNCHANGED <<unique_players, unique_again, uniq_pc>>

Deduplicate ==
    /\ uniq_pc = "collect"
    /\ unique_players' = extract_unique_players(all_players)
    /\ uniq_pc' = "unique"
    /\ UNCHANGED <<all_players, unique_again>>

DeduplicateAgain ==
    /\ uniq_pc = "unique"
    /\ unique_again' = extract_unique_players(unique_players)
    /\ uniq_pc' = "again"
    /\ UNCHANGED <<all_players, unique_players>>

(***************************************************************************)
(* upsert_managers_and_link_fixture (pages/add_managers.py, lines 79-131). *)
(***************************************************************************)
ManagerRow(manager_id, team_id) ==
    [t |-> "dict", empty |-> FALSE, manager_id |-> manager_id, team_id |-> team_id]

\* rows = [r for r in rows_dict.values() if r and r.manager_id and r.team_id]
UpsertRows(rows_dict) ==
    SelectSeq(<<rows_dict.home, rows_dict.away>>,
              LAMBDA r : IsDict(r) /\ Truthy(r.manager_id) /\ Truthy(r.team_id))

\* idx.get((doc.manager_id, doc.team_id)) if doc else None, with idx built
\* from the rows the read-back returned that carry an id
ResolvePk(doc, returned) ==
    IF ~IsDict(doc) THEN JNull
    ELSE IF \E r \in returned :
               r.manager_id = doc.manager_id /\ r.team_id = doc.team_id /\ ~IsNone(r.id)
         THEN (CHOOSE r \in returned :
                  r.manager_id = doc.manager_id /\ r.team_id = doc.team_id /\ ~IsNone(r.id)).id
         ELSE JNull

\* update_doc: only the sides whose primary key is not None
UpdateDoc_BothColumns(home_pk, away_pk) == {<<"home", home_pk>>, <<"away", away_pk>>}
UpdateDoc(home_pk, away_pk) ==
    (IF ~IsNone(home_pk) THEN {<<"home", home_pk>>} ELSE {})
        \cup (IF ~IsNone(away_pk) THEN {<<"away", away_pk>>} ELSE {})

\* the fixture row after .update(update_doc)
ApplyUpdate(fixture, update_doc) ==
    [side \in {"home", "away"} |->
        IF \E u \in update_doc : u[1] = side
        THEN (CHOOSE u \in update_doc : u[1] = side)[2]
        ELSE fixture[side]]

NoCall == [status |-> "none", home_manager_id |-> JNull, away_manager_id |-> JNull,
           upserted |-> <<>>, returned |-> {}, updated |-> FALSE]

\* the managers the feed may give one side, and what the fixture row holds
HomeDocs == {JNull, ManagerRow(JInt(7), JInt(1)), ManagerRow(JNull, JInt(1)),
             ManagerRow(JInt(7), JNull)}
AwayDocs == {JNull, ManagerRow(JInt(8), JInt(2)), ManagerRow(JNull, JInt(2)),
             ManagerRow(JInt(8), JNull)}
LinkChoices == {JNull, JInt(500)}

\* what the read-back may return for the upserted pairs: the row with its
\* primary key, the row without one, or no row
ReadBacks(rows) ==
    LET pairs == {rows[i] : i \in 1..Len(rows)}
        full  == {[manager_id |-> r.manager_id, team_id |-> r.team_id, id |-> pk] :
                     r \in pairs, pk \in {JNull, JInt(900)}}
    IN  {ret \in SUBSET full :
            \A a, b \in ret : (a.manager_id = b.manager_id /\ a.team_id = b.team_id) => a = b}

ManagersIdle ==
    /\ mgr_rows_dict = [home |-> JNull, away |-> JNull]
    /\ mgr_fixture = [home |-> JNull, away |-> JNull]
    /\ mgr_before = [home |-> JNull, away |-> JNull]
    /\ mgr_call = NoCall
    /\ mgr_pc = "idle"

InitManagers ==
    /\ mgr_rows_dict \in [home : HomeDocs, away : AwayDocs]
    /\ mgr_fixture \in [home : LinkChoices, away : LinkChoices]
    /\ mgr_before = mgr_fixture
    /\ mgr_call = NoCall
    /\ mgr_pc = "ready"

\* the return value of the call and what it wrote, given the rows the
\* read-back returns
upsert_managers_and_link_fixture(rows_dict, returned) ==
    LET rows == UpsertRows(rows_dict)
        home_pk == ResolvePk(rows_dict.home, returned)
        away_pk == ResolvePk(rows_dict.away, returned)
    IN  IF rows = <<>>
        THEN [NoCall EXCEPT !.status = "no-managers"]
        ELSE [status |-> "linked", home_manager_id |-> home_pk,
              away_manager_id |-> away_pk, upserted |-> rows,
              returned |-> returned, updated |-> (UpdateDoc(home_pk, away_pk) # {})]

\* one call of upsert_managers_and_link_fixture
UpsertManagersAndLink ==
    /\ mgr_pc = "ready"
    /\ \E returned \in ReadBacks(UpsertRows(mgr_rows_dict)) :
          LET res == upsert_managers_and_link_fixture(mgr_rows_dict, returned) IN
          /\ mgr_call' = res
          /\ mgr_fixture' =
                IF res.status = "linked"
                THEN ApplyUpdate(mgr_fixture,
                                 UpdateDoc(res.home_manager_id, res.away_manager_id))
                ELSE mgr_fixture
    /\ mgr_pc' = "done"
    /\ UNCHANGED <<mgr_rows_dict, mgr_before>>

(***************************************************************************)
(* The season-level batch loops: add_shots.py 169-189, add_players.py      *)
(* 208-255, add_statistics.py 196-225, add_managers.py 214-259.  The fetch *)
(* functions and the database are collaborators: a fetch returns a         *)
(* payload, returns nothing, or raises; an extractor returns rows or       *)
(* raises on a payload it cannot walk.                                     *)
(***************************************************************************)
NewBatch ==
    [all_shots |-> <<>>, all_players |-> <<>>, all_match_rows |-> <<>>,
     all_player_rows |-> <<>>, results |-> <<>>,
     no_shotmap_count |-> 0, no_data_count |-> 0, no_players_count |-> 0,
     no_stats_count |-> 0, no_lineups_count |-> 0, error_count |-> 0,
     success_count |-> 0,
     fetched |-> <<>>,      \* the fetches made: <<position in the list, feed>>
     written |-> <<>>]      \* the database writes made: <<position, table>>

\* the rows an extractor returns for one fixture
RowsOf(fixture_id) == <<[fixture_id |-> fixture_id, n |-> 1], [fixture_id |-> fixture_id, n |-> 2]>>

\* what one iteration of the add_shots loop can meet
ShotOutcomes == {"fetch_raises", "no_shotmap", "extract_raises", "no_rows", "rows"}

\* lines 169-189 of add_shots.py for the fixture at position i
ShotsIteration(b, i, fixture, out) ==
    LET f == [b EXCEPT !.fetched = Append(@, <<i, "shotmap">>)] IN
    CASE out = "fetch_raises"   -> [f EXCEPT !.error_count = @ + 1]
      [] out = "no_shotmap"     -> [f EXCEPT !.no_shotmap_count = @ + 1]
      [] out = "extract_raises" -> [f EXCEPT !.error_count = @ + 1]
      [] out = "no_rows"        -> f
      [] out = "rows"           -> [f EXCEPT !.all_shots = @ \o RowsOf(fixture.fixture_id)]

\* what one iteration of the add_players loop can meet
PlayerOutcomes ==
    {"fetch_raises", "no_data", "not_dict", "no_keys", "parse_raises", "no_players", "players"}

\* lines 208-255 of add_players.py
PlayersIteration(b, i, fixture, out) ==
    LET f == [b EXCEPT !.fetched = Append(@, <<i, "lineups">>)] IN
    CASE out = "fetch_raises" -> [f EXCEPT !.error_count = @ + 1]
      [] out = "no_data"      -> [f EXCEPT !.no_data_count = @ + 1]
      [] out = "not_dict"     -> [f EXCEPT !.error_count = @ + 1]
      [] out = "no_keys"      -> [f EXCEPT !.error_count = @ + 1]
      [] out = "parse_raises" -> [f EXCEPT !.error_count = @ + 1]
      [] out = "no_players"   -> [f EXCEPT !.no_players_count = @ + 1]
      [] out = "players"      -> [f EXCEPT !.success_count = @ + 1,
                                           !.all_players = @ \o RowsOf(fixture.fixture_id)]

\* what one iteration of the add_statistics loop can meet: the statistics
\* feed, then the lineups feed unless the first part raised
StatisticsOutcomes ==
    {[stats |-> st, lineups |-> "not_reached"] : st \in {"fetch_raises", "extract_raises"}}
    \cup {[stats |-> st, lineups |-> lu] :
              st \in {"no_stats", "rows"},
              lu \in {"fetch_raises", "unusable", "extract_raises", "rows"}}

\* lines 196-225 of add_statistics.py
StatisticsIteration(b, i, fixture, out) ==
    LET f1 == [b EXCEPT !.fetched = Append(@, <<i, "statistics">>)]
        s  == CASE out.stats = "no_stats" -> [f1 EXCEPT !.no_stats_count = @ + 1]
                [] out.stats = "rows" ->
                       [f1 EXCEPT !.all_match_rows = @ \o RowsOf(fixture.fixture_id)]
                [] OTHER -> [f1 EXCEPT !.error_count = @ + 1]
        f2 == [s EXCEPT !.fetched = Append(@, <<i, "lineups">>)]
    IN  CASE out.lineups = "not_reached"    -> s
          [] out.lineups = "fetch_raises"   -> [f2 EXCEPT !.error_count = @ + 1]
          [] out.lineups = "unusable"       -> [f2 EXCEPT !.no_lineups_count = @ + 1]
          [] out.lineups = "extract_raises" -> [f2 EXCEPT !.error_count = @ + 1]
          [] out.lineups = "rows" ->
                 [f2 EXCEPT !.all_player_rows = @ \o RowsOf(fixture.fixture_id)]

\* the managers feed of one fixture
ManagersPayload(home, away) ==
    [t |-> "dict", empty |-> FALSE, homeManager |-> home, awayManager |-> away]
Mgr(id) == JObj(id)

\* parse_managers_payload
ManagerRowOf(mgr, team_id) ==
    IF ~Truthy(mgr) THEN JNull ELSE ManagerRow(SafeInt(mgr.id), SafeInt(team_id))

parse_managers_payload(payload, home_tid, away_tid) ==
    IF ~IsDict(payload) THEN [home |-> JNull, away |-> JNull]
    ELSE [home |-> ManagerRowOf(payload.homeManager, home_tid),
          away |-> ManagerRowOf(payload.awayManager, away_tid)]

\* if not fid or not home_tid or not away_tid
MissingIds_TeamsOnly(fid, home_tid, away_tid) ==
    ~Truthy(home_tid) \/ ~Truthy(away_tid)
MissingIds(fid, home_tid, away_tid) ==
    ~Truthy(fid) \/ ~Truthy(home_tid) \/ ~Truthy(away_tid)

ManagerPayloads ==
    {JNull,
     ManagersPayload(JNull, JNull),
     ManagersPayload(Mgr(JNull), JNull),
     ManagersPayload(Mgr(JInt(7)), JNull),
     ManagersPayload(Mgr(JInt(7)), Mgr(JInt(8)))}

\* the read-back of the bulk loop: each upserted pair comes back with its
\* primary key or not at all
LoopReadBacks(rows) == {ret \in ReadBacks(rows) : \A r \in ret : ~IsNone(r.id)}

\* what one iteration of the add_managers loop can meet
ManagerOutcomes(fixture) ==
    LET fid == SafeInt(fixture.fixture_id)
        home_tid == SafeInt(fixture.home_team_id)
        away_tid == SafeInt(fixture.away_team_id)
    IN  IF MissingIds(fid, home_tid, away_tid)
        THEN {[fetch |-> "not_reached", payload |-> JNull, db |-> "not_reached", returned |-> {}]}
        ELSE {[fetch |-> "raises", payload |-> JNull, db |-> "not_reached", returned |-> {}]}
             \cup UNION {
                 LET rows_dict == parse_managers_payload(payload, home_tid, away_tid)
                     rows == UpsertRows(rows_dict)
                 IN  IF rows = <<>>
                     THEN {[fetch |-> "payload", payload |-> payload,
                            db |-> "not_reached", returned |-> {}]}
                     ELSE {[fetch |-> "payload", payload |-> payload,
                            db |-> "raises", returned |-> {}]}
                          \cup {[fetch |-> "payload", payload |-> payload,
                                 db |-> "ok", returned |-> ret] : ret \in LoopReadBacks(rows)}
                 : payload \in ManagerPayloads}

ResultRow(fid, home_tid, away_tid, status, home_pk, away_pk) ==
    [fixture_id |-> fid, home_team_id |-> home_tid, away_team_id |-> away_tid,
     status |-> status, home_manager_id |-> home_pk, away_manager_id |-> away_pk]

\* lines 214-259 of add_managers.py
ManagersIteration(b, i, fixture, out) ==
    LET fid == SafeInt(fixture.fixture_id)
        home_tid == SafeInt(fixture.home_team_id)
        away_tid == SafeInt(fixture.away_team_id)
        rows_dict == parse_managers_payload(out.payload, home_tid, away_tid)
        anyRow == Truthy(rows_dict.home) \/ Truthy(rows_dict.away)
        res == upsert_managers_and_link_fixture(rows_dict, out.returned)
        f == [b EXCEPT !.fetched = Append(@, <<i, "managers">>)]
        up == [f EXCEPT !.written = Append(@, <<i, "managers">>)]
        add(bb, status, hp, ap) ==
            [bb EXCEPT !.results = Append(@, ResultRow(fid, home_tid, away_tid, status, hp, ap))]
    IN  IF out.fetch = "not_reached" THEN add(b, "skipped", JNull, JNull)
        ELSE IF out.fetch = "raises" THEN add(f, "error", JNull, JNull)
        ELSE IF ~anyRow THEN add(f, "no-managers", JNull, JNull)
        ELSE IF res.status = "no-managers" THEN add(f, "no-managers", JNull, JNull)
        ELSE IF out.db = "raises" THEN add(up, "error", JNull, JNull)
        ELSE add(IF res.updated
                 THEN [up EXCEPT !.written = Append(@, <<i, "fixtures">>)] ELSE up,
                 res.status, res.home_manager_id, res.away_manager_id)

\* whether the iteration ended in the except branch
Raised(kind, out) ==
    CASE kind = "shots"      -> out \in {"fetch_raises", "extract_raises"}
      [] kind = "players"    -> out \in {"fetch_raises", "parse_raises"}
      [] kind = "statistics" -> \/ out.stats \in {"fetch_raises", "extract_raises"}
                                \/ out.lineups \in {"fetch_raises", "extract_raises"}
      [] kind = "managers"   -> out.fetch = "raises" \/ out.db = "raises"
      [] OTHER -> FALSE

\* "continue" of the except branch, or the end of the loop body: the loop
\* goes on to the next fixture and ends after the last one
AfterIteration_AbortOnError(i, n, raised) ==
    IF raised \/ i >= n THEN "done" ELSE "loop"
AfterIteration(i, n, raised) ==
    IF i >= n THEN "done" ELSE "loop"

MissingFixtureChoices(i) ==
    {[fixture_id |-> JInt(100 + i), home_team_id |-> JInt(1), away_team_id |-> JInt(2)],
     [fixture_id |-> JNull, home_team_id |-> JInt(1), away_team_id |-> JInt(2)],
     [fixture_id |-> JInt(100 + i), home_team_id |-> JInt(0), away_team_id |-> JInt(2)]}

SeasonFixtures ==
    [i \in 1..MaxFixtures |->
        [fixture_id |-> JInt(100 + i), home_team_id |-> JInt(1), away_team_id |-> JInt(2)]]

BatchIdle ==
    /\ batch_kind = "none" /\ fixtures = <<>> /\ batch_idx = 0
    /\ batch = NewBatch /\ batch_outcomes = <<>> /\ batch_pc = "idle"

\* the button of one of the four pages is pressed
InitBatch ==
    /\ batch_kind \in {"shots", "players", "statistics", "managers"}
    /\ fixtures \in [1..MaxFixtures ->
                        UNION {MissingFixtureChoices(i) : i \in 1..MaxFixtures}]
    /\ IF batch_kind = "managers"
       THEN \A i \in 1..MaxFixtures : fixtures[i] \in MissingFixtureChoices(i)
       ELSE fixtures = SeasonFixtures
    /\ batch_idx = 0
    /\ batch = NewBatch
    /\ batch_outcomes = <<>>
    /\ batch_pc = "loop"

StepWith(kind, out, b) ==
    /\ batch' = b
    /\ batch_idx' = batch_idx + 1
    /\ batch_outcomes' = Append(batch_outcomes, out)
    /\ batch_pc' = AfterIteration(batch_idx + 1, Len(fixtures), Raised(kind, out))
    /\ UNCHANGED <<batch_kind, fixtures>>

ShotsStep ==
    /\ batch_kind = "shots" /\ batch_pc = "loop" /\ batch_idx < Len(fixtures)
    /\ \E out \in ShotOutcomes :
          StepWith("shots", out,
                   ShotsIteration(batch, batch_idx + 1, fixtures[batch_idx + 1], out))

PlayersStep ==
    /\ batch_kind = "players" /\ batch_pc = "loop" /\ batch_idx < Len(fixtures)
    /\ \E out \in PlayerOutcomes :
          StepWith("players", out,
                   PlayersIteration(batch, batch_idx + 1, fixtures[batch_idx + 1], out))

StatisticsStep ==
    /\ batch_kind = "statistics" /\ batch_pc = "loop" /\ batch_idx < Len(fixtures)
    /\ \E out \in StatisticsOutcomes :
          StepWith("statistics", out,
                   StatisticsIteration(batch, batch_idx + 1, fixtures[batch_idx + 1], out))

ManagersStep ==
    /\ batch_kind = "managers" /\ batch_pc = "loop" /\ batch_idx < Len(fixtures)
    /\ \E out \in ManagerOutcomes(fixtures[batch_idx + 1]) :
          StepWith("managers", out,
                   ManagersIteration(batch, batch_idx + 1, fixtures[batch_idx + 1], out))

\* every component added after the feeds, at rest
ExtIdle == DiffIdle /\ UniqueIdle /\ ManagersIdle /\ BatchIdle

(***************************************************************************)
(* Specifications: one per component.                                      *)
(***************************************************************************)
NextTimeline ==
    \/ (AddGoal /\ UNCHANGED <<inc_vars, shot_vars, ext_vars>>)
    \/ (BeginWalk /\ UNCHANGED <<inc_vars, shot_vars, ext_vars>>)
    \/ (ProcessGoal /\ UNCHANGED <<inc_vars, shot_vars, ext_vars>>)
    \/ (FinishWalk /\ UNCHANGED <<inc_vars, shot_vars, ext_vars>>)
    \/ (Render /\ UNCHANGED <<inc_vars, shot_vars, ext_vars>>)

InitSpecTimeline == InitTimeline /\ IncidentsIdle /\ ShotsIdle /\ ExtIdle

SpecTimeline == InitSpecTimeline /\ [][NextTimeline]_vars

NextIncidents ==
    \/ (FetchIncident(DispatchFeed) /\ UNCHANGED <<tl_vars, shot_vars, ext_vars>>)
    \/ (ParseIncidents /\ UNCHANGED <<tl_vars, shot_vars, ext_vars>>)

InitSpecIncidents == TimelineIdle /\ InitIncidents /\ ShotsIdle /\ ExtIdle

SpecIncidents == InitSpecIncidents /\ [][NextIncidents]_vars

NextIncidentFields ==
    \/ (FetchIncident(FieldFeed) /\ UNCHANGED <<tl_vars, shot_vars, ext_vars>>)
    \/ (ParseIncidents /\ UNCHANGED <<tl_vars, shot_vars, ext_vars>>)

InitSpecIncidentFields == TimelineIdle /\ InitIncidents /\ ShotsIdle /\ ExtIdle

SpecIncidentFields == InitSpecIncidentFields /\ [][NextIncidentFields]_vars

NextShots ==
    \/ (FetchShot(ShotItems) /\ UNCHANGED <<tl_vars, inc_vars, ext_vars>>)
    \/ (ParseShots /\ UNCHANGED <<tl_vars, inc_vars, ext_vars>>)

InitSpecShots == TimelineIdle /\ IncidentsIdle /\ InitShots /\ ExtIdle

SpecShots == InitSpecShots /\ [][NextShots]_vars

NextDiff ==
    \/ (FetchIncident(DiffFeed) /\ UNCHANGED <<tl_vars, shot_vars, ext_vars>>)
    \/ (FetchAndDiff /\ UNCHANGED <<tl_vars, shot_vars, rest_vars>>)
    \/ (InsertCards /\ UNCHANGED <<tl_vars, shot_vars, rest_vars>>)
    \/ (InsertGoals /\ UNCHANGED <<tl_vars, shot_vars, rest_vars>>)

InitSpecDiff ==
    /\ TimelineIdle /\ ShotsIdle
    /\ incidents_json = [shape |-> "dict", items |-> <<>>]
    /\ inc_result = NoIncResult
    /\ goal_result = NoGoalResult
    /\ inc_pc = "fetch"
    /\ InitDiff
    /\ UniqueIdle /\ ManagersIdle /\ BatchIdle

SpecDiff == InitSpecDiff /\ [][NextDiff]_vars

NextUnique ==
    \/ (CollectPlayer /\ UNCHANGED <<tl_vars, inc_vars, shot_vars, diff_vars, mgr_vars, batch_vars>>)
    \/ (Deduplicate /\ UNCHANGED <<tl_vars, inc_vars, shot_vars, diff_vars, mgr_vars, batch_vars>>)
    \/ (DeduplicateAgain /\ UNCHANGED <<tl_vars, inc_vars, shot_vars, diff_vars, mgr_vars, batch_vars>>)

InitSpecUnique ==
    /\ TimelineIdle /\ IncidentsIdle /\ ShotsIdle /\ DiffIdle
    /\ InitUnique /\ ManagersIdle /\ BatchIdle

SpecUnique == InitSpecUnique /\ [][NextUnique]_vars

NextManagers ==
    UpsertManagersAndLink
        /\ UNCHANGED <<tl_vars, inc_vars, shot_vars, diff_vars, uniq_vars, batch_vars>>

InitSpecManagers ==
    /\ TimelineIdle /\ IncidentsIdle /\ ShotsIdle /\ DiffIdle
    /\ UniqueIdle /\ InitManagers /\ BatchIdle

SpecManagers == InitSpecManagers /\ [][NextManagers]_vars

NextBatch ==
    \/ (ShotsStep /\ UNCHANGED <<tl_vars, inc_vars, shot_vars, diff_vars, uniq_vars, mgr_vars>>)
    \/ (PlayersStep /\ UNCHANGED <<tl_vars, inc_vars, shot_vars, diff_vars, uniq_vars, mgr_vars>>)
    \/ (StatisticsStep /\ UNCHANGED <<tl_vars, inc_vars, shot_vars, diff_vars, uniq_vars, mgr_vars>>)
    \/ (ManagersStep /\ UNCHANGED <<tl_vars, inc_vars, shot_vars, diff_vars, uniq_vars, mgr_vars>>)

InitSpecBatch ==
    /\ TimelineIdle /\ IncidentsIdle /\ ShotsIdle /\ DiffIdle
    /\ UniqueIdle /\ ManagersIdle /\ InitBatch

\* a Python for loop runs on until its list is exhausted
SpecBatch == InitSpecBatch /\ [][NextBatch]_vars /\ WF_vars(NextBatch)

\* the two parsers of add_incidents.py, each on a feed of edge items: a run
\* fetches and parses either an incidents payload or a shotmap payload
NextEdgeFeeds ==
    \/ (FetchIncident(EdgeFeed) /\ UNCHANGED <<tl_vars, shot_vars, ext_vars>>)
    \/ (ParseIncidents /\ UNCHANGED <<tl_vars, shot_vars, ext_vars>>)
    \/ (FetchShot(EdgeShots) /\ UNCHANGED <<tl_vars, inc_vars, ext_vars>>)
    \/ (ParseShots /\ UNCHANGED <<tl_vars, inc_vars, ext_vars>>)

InitSpecEdgeFeeds ==
    /\ TimelineIdle
    /\ \/ (InitIncidents /\ ShotsIdle)
       \/ (IncidentsIdle /\ InitShots)
    /\ ExtIdle

SpecEdgeFeeds == InitSpecEdgeFeeds /\ [][NextEdgeFeeds]_vars


(***************************************************************************)
(* CLAIMS about the timeline (SpecTimeline).                               *)
(***************************************************************************)
NGoals == Len(goal_events)

\* the k-th boundary of the match: start, the goals in order, the end
Boundary(k) ==
    IF k = 0 THEN 0
    ELSE IF k <= NGoals THEN goal_events[k].matchMinute
    ELSE total_minutes

\* goals credited to each side among the first k goals
HomeGoalsIn(k) ==
    Cardinality({j \in 1..k : (goal_events[j].team = "home") # goal_events[j].isOwnGoal})
AwayGoalsIn(k) == k - HomeGoalsIn(k)

\* the rows of one team chain from minute 0 to total_minutes
Chained(rows) ==
    /\ Len(rows) >= 1
    /\ rows[1].Start = 0
    /\ \A k \in 1..(Len(rows) - 1) : rows[k + 1].Start = rows[k].End
    /\ rows[Len(rows)].End = total_minutes
    /\ \A k \in 1..Len(rows) : rows[k].Duration = rows[k].End - rows[k].Start

C2_StatesFollowScore ==
    tl_pc = "rendered" =>
        /\ Len(home_data) = Len(segments) /\ Len(away_data) = Len(segments)
        /\ \A k \in 1..Len(segments) :
              LET h == HomeGoalsIn(k - 1)
                  a == AwayGoalsIn(k - 1)
              IN  /\ (home_data[k].State = "winning") <=> (h > a)
                  /\ (home_data[k].State = "losing") <=> (h < a)
                  /\ (home_data[k].State = "drawing") <=> (h = a)
                  /\ (home_data[k].State = "winning") <=> (away_data[k].State = "losing")
                  /\ (home_data[k].State = "losing") <=> (away_data[k].State = "winning")
                  /\ (home_data[k].State = "drawing") <=> (away_data[k].State = "drawing")
        /\ home_data[1].State = "drawing" /\ away_data[1].State = "drawing"

C2_Witness ==
    /\ tl_pc = "rendered" /\ NGoals = 3
    /\ home_data[2].State = "winning" /\ away_data[2].State = "losing"
    /\ home_data[3].State = "drawing" /\ away_data[3].State = "drawing"
    /\ home_data[4].State = "losing" /\ away_data[4].State = "winning"

\* C3: processing a goal raises exactly one of the two scores by exactly 1:
\* the indicated side's score for a goal not flagged own goal, the opposing
\* side's score for an own goal; a home-side own goal at 0-0 gives 0-1 and
\* the state losing(home) / winning(away).
C3_OwnGoalFlipsScore ==
    /\ [][ (tl_pc = "walk" /\ next_goal' = next_goal + 1) =>
             LET g == goal_events[next_goal]
                 toHome == (g.team = "home" /\ ~g.isOwnGoal)
                              \/ (g.team = "away" /\ g.isOwnGoal)
             IN  /\ toHome => (home_score' = home_score + 1 /\ away_score' = away_score)
                 /\ ~toHome => (away_score' = away_score + 1 /\ home_score' = home_score)
          ]_vars
    /\ [] ( (tl_pc = "reconstructed" /\ NGoals = 1
              /\ goal_events[1].team = "home" /\ goal_events[1].isOwnGoal)
            => /\ home_score = 0 /\ away_score = 1
               /\ segments[2].home = "losing" /\ segments[2].away = "winning" )

C3_Witness ==
    /\ tl_pc = "reconstructed" /\ NGoals = 1
    /\ goal_events[1].team = "home" /\ goal_events[1].isOwnGoal
    /\ home_score = 0 /\ away_score = 1
    /\ segments[2].home = "losing"

\* C4: segment boundaries are exactly the goal match_minutes plus match start
\* and end: n goals give n + 1 segments, segment k ends at goal k's
\* match_minute and the last at total_minutes; goals sharing a match_minute
\* give a zero-width segment; no goals give the single segment
\* [0, total_minutes] drawing/drawing; nothing is split at the half boundary.
C4_BoundariesAreGoalMinutes ==
    tl_pc \in {"reconstructed", "rendered"} =>
        /\ Len(segments) = NGoals + 1
        /\ \A k \in 1..(NGoals + 1) :
              /\ segments[k].start = Boundary(k - 1)
              /\ segments[k].end = Boundary(k)
        /\ \A k \in 2..NGoals :
              goal_events[k].matchMinute = goal_events[k - 1].matchMinute
                 => segments[k].start = segments[k].end
        /\ NGoals = 0 =>
              /\ segments[1].start = 0 /\ segments[1].end = total_minutes
              /\ segments[1].home = "drawing" /\ segments[1].away = "drawing"

C4_Witness ==
    /\ tl_pc = "rendered" /\ NGoals = 3
    /\ goal_events[1].matchMinute = 23 /\ goal_events[2].matchMinute = 23
    /\ goal_events[3].matchMinute = 90
    /\ Len(segments) = 4
    /\ segments[2].start = 23 /\ segments[2].end = 23
    /\ segments[3].start < HalfLen + injury_time_1
    /\ segments[3].end > HalfLen + injury_time_1

IncRaw(row)  == IncItemsOf(incidents_json)[row.item]
ShotRaw(row) == ShotItemsOf(shotmap_json)[row.item]

SeqRange(sq) == {sq[i] : i \in 1..Len(sq)}

IsSentinel(x) == x.t = "int" /\ x.n >= SentinelMin

IncRows ==
    SeqRange(inc_result.cards) \cup SeqRange(inc_result.goals) \cup SeqRange(inc_result.subs)

\* C6: every card row, goal row and substitution tuple emitted for an
\* incident whose raw addedTime is an integer >= 900 has added_time null
\* (not the sentinel, not 0); a raw addedTime of 0 stays 0.
C6_SentinelAddedTimeIsNull ==
    inc_pc = "parsed" =>
        \A row \in IncRows :
            /\ IsSentinel(IncRaw(row).addedTime) => row.added_time = JNull
            /\ IncRaw(row).addedTime = JInt(0) => row.added_time = JInt(0)

C6_Witness ==
    /\ inc_pc = "parsed"
    /\ \E c \in SeqRange(inc_result.cards) :
          IncRaw(c).addedTime = JInt(999) /\ c.added_time = JNull
    /\ \E g \in SeqRange(inc_result.goals) :
          IncRaw(g).addedTime = JInt(0) /\ g.added_time = JInt(0)

C6_WitnessSubstitution ==
    /\ inc_pc = "parsed"
    /\ \E sb \in SeqRange(inc_result.subs) :
          IncRaw(sb).addedTime = JInt(900) /\ sb.added_time = JNull

\* C7: every shot row emitted by parse_shotmap and by extract_shots_rows for
\* a shot whose raw addedTime is an integer >= 900 has added_time null, and
\* the sentinel does not enter match_minute.
C7_ShotSentinelIsNull ==
    shot_pc = "parsed" =>
        /\ \A row \in SeqRange(shot_result.rows) :
              IsSentinel(ShotRaw(row).addedTime) =>
                 /\ row.added_time = JNull
                 /\ row.match_minute = row.minute
        /\ \A row \in SeqRange(shot_rows_result.rows) :
              IsSentinel(ShotRaw(row).addedTime) => row.added_time = JNull

\* C7, goal events: the sentinel is never used as an added-time or
\* injury-time value by extract_goal_incidents.
C7_GoalEventSentinelUnused ==
    (inc_pc = "parsed" /\ ~goal_result.raised) =>
        /\ goal_result.max_injuryTime1 < SentinelMin
        /\ goal_result.max_injuryTime2 < SentinelMin
        /\ \A ev \in SeqRange(goal_result.home_goals) \cup SeqRange(goal_result.away_goals) :
              ~IsSentinel(ev.addedTime)

\* C8: in every card row, class secondYellow or yellowRed gives yellow,
\* yellow_2 and red all true; yellow gives only yellow; red gives only red;
\* so yellow_2 implies yellow and red.
C8_CardFlags ==
    inc_pc = "parsed" =>
        \A c \in SeqRange(inc_result.cards) :
            LET iclass == Get(IncRaw(c), "incidentClass") IN
            /\ iclass \in {JStr("secondYellow"), JStr("yellowRed")}
                  => (c.yellow /\ c.yellow_2 /\ c.red)
            /\ iclass = JStr("yellow") => (c.yellow /\ ~c.yellow_2 /\ ~c.red)
            /\ iclass = JStr("red") => (~c.yellow /\ ~c.yellow_2 /\ c.red)
            /\ c.yellow_2 => (c.yellow /\ c.red)

C8_Witness ==
    /\ inc_pc = "parsed"
    /\ Len(inc_result.cards) = 2
    /\ Get(IncRaw(inc_result.cards[1]), "incidentClass") = JStr("secondYellow")
    /\ inc_result.cards[1].yellow /\ inc_result.cards[1].yellow_2 /\ inc_result.cards[1].red
    /\ Get(IncRaw(inc_result.cards[2]), "incidentClass") = JStr("yellow")
    /\ inc_result.cards[2].yellow /\ ~inc_result.cards[2].red

\* C9: a goal is marked own goal if and only if its incidentClass is
\* "ownGoal", in the goal row of parse_incidents_to_cards_goals (whose team_id
\* stays the side of the flag) and in the goal event of
\* extract_goal_incidents.
C9_OwnGoalIffClass ==
    inc_pc = "parsed" =>
        /\ \A g \in SeqRange(inc_result.goals) :
              /\ g.is_own_goal <=> (Get(IncRaw(g), "incidentClass") = JStr("ownGoal"))
              /\ IsTrue(IncRaw(g).isHome) => g.team_id = JInt(home_team_id)
        /\ \A ev \in SeqRange(goal_result.home_goals) \cup SeqRange(goal_result.away_goals) :
              ev.isOwnGoal <=> (Get(IncRaw(ev), "incidentClass") = JStr("ownGoal"))

\* C9, the goal events alone
C9_GoalEventOwnGoalIffClass ==
    inc_pc = "parsed" =>
        \A ev \in SeqRange(goal_result.home_goals) \cup SeqRange(goal_result.away_goals) :
            ev.isOwnGoal <=> (Get(IncRaw(ev), "incidentClass") = JStr("ownGoal"))

\* C10: isHome exactly true resolves to the home team, exactly false to the
\* away team, anything else to null: in the card and goal rows, and in the
\* placement of goal events (an event whose isHome is absent or not a boolean
\* is in neither list for a side it was not flagged for).
C10_TeamFromSideFlag ==
    inc_pc = "parsed" =>
        /\ \A row \in SeqRange(inc_result.cards) \cup SeqRange(inc_result.goals) :
              /\ IsTrue(IncRaw(row).isHome) => row.team_id = JInt(home_team_id)
              /\ IsFalse(IncRaw(row).isHome) => row.team_id = JInt(away_team_id)
              /\ (~IsTrue(IncRaw(row).isHome) /\ ~IsFalse(IncRaw(row).isHome))
                    => row.team_id = JNull
        /\ \A ev \in SeqRange(goal_result.home_goals) :
              IsTrue(IncRaw(ev).isHome) /\ ev.teamId = home_team_id
        /\ \A ev \in SeqRange(goal_result.away_goals) :
              IsFalse(IncRaw(ev).isHome) /\ ev.teamId = away_team_id

\* C10, the three row parsers (these resolve the flag as claimed)
C10_RowsTeamFromSideFlag ==
    /\ inc_pc = "parsed" =>
          \A row \in SeqRange(inc_result.cards) \cup SeqRange(inc_result.goals) :
              row.team_id = (IF IsTrue(IncRaw(row).isHome) THEN JInt(home_team_id)
                             ELSE IF IsFalse(IncRaw(row).isHome) THEN JInt(away_team_id)
                             ELSE JNull)
    /\ shot_pc = "parsed" =>
          \A row \in SeqRange(shot_result.rows) \cup SeqRange(shot_rows_result.rows) :
              row.team_id = (IF IsTrue(ShotRaw(row).isHome) THEN JInt(home_team_id)
                             ELSE IF IsFalse(ShotRaw(row).isHome) THEN JInt(away_team_id)
                             ELSE JNull)

(***************************************************************************)
(* CLAIMS about the feed contract: explicit teams, match_minute, half,     *)
(* substitutions, containers, malformed items, discriminators.             *)
(***************************************************************************)
\* the team an incident names itself: the id of a team object, or an integer
ExplicitTeam(inc) ==
    LET tm == Get(inc, "team") IN
    IF IsDict(tm) THEN GetId(tm)
    ELSE IF tm.t = "int" THEN tm
    ELSE JNull

CardAndGoalRows == SeqRange(inc_result.cards) \cup SeqRange(inc_result.goals)

\* C11: a card or goal row emitted for an incident that carries an explicit
\* team (a team object with an id, or an integer team) next to its isHome
\* flag has that explicit team as team_id, not the team of the flag.
C11_ExplicitTeamPreferred ==
    inc_pc = "parsed" =>
        \A row \in CardAndGoalRows :
            ~IsNone(ExplicitTeam(IncRaw(row))) => row.team_id = ExplicitTeam(IncRaw(row))

\* minute + added_time with null propagating from either operand
NullPropagatingSum(minute, added) ==
    IF IsNone(minute) \/ IsNone(added) THEN JNull ELSE JInt(minute.n + added.n)

\* C12: match_minute of every card, goal and shot row is minute + added_time
\* when both are non-null and null when either is null.
C12_MatchMinuteNullPropagates ==
    /\ inc_pc = "parsed" =>
          /\ \A c \in SeqRange(inc_result.cards) :
                c.match_minute = NullPropagatingSum(c.card_minute, c.added_time)
          /\ \A g \in SeqRange(inc_result.goals) :
                g.match_minute = NullPropagatingSum(g.goal_minute, g.added_time)
    /\ shot_pc = "parsed" =>
          \A sh \in SeqRange(shot_result.rows) :
              sh.match_minute = NullPropagatingSum(sh.minute, sh.added_time)

\* C12, the part that the parsers keep: a null minute gives a null
\* match_minute, and two non-null operands are added.
C12_MatchMinuteWhenBothKnown ==
    /\ inc_pc = "parsed" =>
          /\ \A c \in SeqRange(inc_result.cards) :
                (IsNone(c.card_minute) \/ ~IsNone(c.added_time)) =>
                    c.match_minute = NullPropagatingSum(c.card_minute, c.added_time)
          /\ \A g \in SeqRange(inc_result.goals) :
                (IsNone(g.goal_minute) \/ ~IsNone(g.added_time)) =>
                    g.match_minute = NullPropagatingSum(g.goal_minute, g.added_time)
    /\ shot_pc = "parsed" =>
          \A sh \in SeqRange(shot_result.rows) :
              (IsNone(sh.minute) \/ ~IsNone(sh.added_time)) =>
                  sh.match_minute = NullPropagatingSum(sh.minute, sh.added_time)

\* the half the thresholds give a clock minute
HalfOfClock(m) ==
    CASE IsNone(m) -> JNull
      [] ~IsNone(m) /\ m.n <= 45 -> JStr("1")
      [] ~IsNone(m) /\ 45 < m.n /\ m.n <= 90 -> JStr("2")
      [] ~IsNone(m) /\ 90 < m.n /\ m.n <= 105 -> JStr("ET1")
      [] ~IsNone(m) /\ 105 < m.n /\ m.n <= 120 -> JStr("ET2")
      [] OTHER -> JNull

\* C13: the half of every goal row and shot row is given by the clock minute
\* alone (null -> null, <= 45 -> "1", <= 90 -> "2", <= 105 -> "ET1",
\* <= 120 -> "ET2", above -> null), whatever the added time; a goal at minute
\* 45 with added time 3 has half "1" and match_minute 48.
C13_HalfFromClockMinute ==
    /\ inc_pc = "parsed" =>
          \A g \in SeqRange(inc_result.goals) :
              /\ g.goal_minute = SafeInt(Get(IncRaw(g), "time"))
              /\ g.half = HalfOfClock(g.goal_minute)
              /\ (g.goal_minute = JInt(45) /\ g.added_time = JInt(3))
                    => (g.half = JStr("1") /\ g.match_minute = JInt(48))
    /\ shot_pc = "parsed" =>
          \A sh \in SeqRange(shot_result.rows) :
              /\ sh.minute = SafeInt(Get(ShotRaw(sh), "time"))
              /\ sh.half = HalfOfClock(sh.minute)
              /\ (sh.minute = JInt(45) /\ sh.added_time = JInt(3))
                    => (sh.half = JStr("1") /\ sh.match_minute = JInt(48))

C13_Witness ==
    /\ inc_pc = "parsed"
    /\ Len(inc_result.goals) = 2
    /\ inc_result.goals[1].goal_minute = JInt(45)
    /\ inc_result.goals[1].added_time = JInt(3)
    /\ inc_result.goals[1].match_minute = JInt(48)
    /\ inc_result.goals[1].half = JStr("1")
    /\ inc_result.goals[2].goal_minute = JInt(106)
    /\ inc_result.goals[2].half = JStr("ET2")

C13_WitnessShot ==
    /\ shot_pc = "parsed"
    /\ Len(shot_result.rows) = 2
    /\ shot_result.rows[1].minute = JInt(90)
    /\ shot_result.rows[1].added_time = JInt(3)
    /\ shot_result.rows[1].half = JStr("2")
    /\ shot_result.rows[2].minute = JInt(121)
    /\ shot_result.rows[2].half = JNull

\* a playerIn / playerOut object that carries an id
HasPlayerId(p) == IsDict(p) /\ ~IsNone(GetId(p))

IsSubstitution(inc) == IsDict(inc) /\ Get(inc, "incidentType") = JStr("substitution")

PlainGoal(inc) ==
    /\ IsDict(inc)
    /\ Get(inc, "incidentType") = JStr("goal")
    /\ IsNone(Get(inc, "incidentClass"))
    /\ IsDict(Get(inc, "player"))
    /\ Get(inc, "time").t = "int"
    /\ Get(inc, "addedTime").t \in {"null", "int"}

PlainShot(s) ==
    /\ IsDict(s)
    /\ IsDict(Get(s, "player"))
    /\ Get(s, "shotType").t \in {"null", "str"}
    /\ Get(s, "time").t = "int"

AllPlainGoals(items) == \A i \in 1..Len(items) : PlainGoal(items[i])
AllPlainShots(items) == \A i \in 1..Len(items) : PlainShot(items[i])

\* C15: parse_incidents_to_cards_goals and parse_shotmap read the items of a
\* bare list and of a dict that wraps the list under its key, and return
\* all-empty outputs, without raising, for any other payload (None, a string,
\* a number, a dict without the key, an empty list).
C15_ContainerShapes ==
    /\ inc_pc = "parsed" =>
          /\ (incidents_json.shape \notin {"list", "dict"} \/ incidents_json.items = <<>>)
                => inc_result = NoIncResult
          /\ (incidents_json.shape \in {"list", "dict"} /\ AllPlainGoals(incidents_json.items))
                => /\ ~inc_result.raised
                   /\ Len(inc_result.goals) = Len(incidents_json.items)
                   /\ \A i \in 1..Len(incidents_json.items) : inc_result.goals[i].item = i
    /\ shot_pc = "parsed" =>
          /\ (shotmap_json.shape \notin {"list", "dict"} \/ shotmap_json.items = <<>>)
                => shot_result = NoShotResult
          /\ (shotmap_json.shape \in {"list", "dict"} /\ AllPlainShots(shotmap_json.items))
                => /\ ~shot_result.raised
                   /\ Len(shot_result.rows) = Len(shotmap_json.items)
                   /\ \A i \in 1..Len(shotmap_json.items) : shot_result.rows[i].item = i

C15_Witness ==
    /\ inc_pc = "parsed"
    /\ incidents_json.shape = "dict"
    /\ Len(incidents_json.items) = 2
    /\ AllPlainGoals(incidents_json.items)
    /\ Len(inc_result.goals) = 2

C15_WitnessNoContainer ==
    /\ shot_pc = "parsed"
    /\ shotmap_json.shape = "str"
    /\ shot_result = NoShotResult

\* C16: no item of a list makes parse_incidents_to_cards_goals, parse_shotmap
\* or extract_goal_incidents raise; a malformed item is skipped and every
\* well-formed item of the batch still has its row.
C16_NeverRaisesOnMalformedItem ==
    /\ (inc_pc = "parsed" /\ incidents_json.shape \in {"list", "dict"}) =>
          /\ ~inc_result.raised
          /\ incidents_json.shape = "dict" => ~goal_result.raised
          /\ \A i \in 1..Len(incidents_json.items) :
                PlainGoal(incidents_json.items[i])
                    => \E g \in SeqRange(inc_result.goals) : g.item = i
    /\ (shot_pc = "parsed" /\ shotmap_json.shape \in {"list", "dict"}) =>
          /\ ~shot_result.raised
          /\ \A i \in 1..Len(shotmap_json.items) :
                PlainShot(shotmap_json.items[i])
                    => \E sh \in SeqRange(shot_result.rows) : sh.item = i

\* the type discriminator of an incident: incidentType, or type when
\* incidentType is absent
Discriminator(inc) ==
    IF inc.incidentType.t # "absent" THEN inc.incidentType ELSE Get(inc, "type")

\* the vocabulary of type discriminators that give rows or entries
RowTypes ==
    {JStr("card"), JStr("goal"), JStr("ownGoal"), JStr("penalty"),
     JStr("missedPenalty"), JStr("substitution")}

NoOutputFor(i) == \A row \in IncRows : row.item # i

\* C17: an incident whose type discriminator is outside the vocabulary, or
\* is a period / injuryTime marker, gives no card row, no goal row and no
\* substitution entry, whatever its incidentClass.
C17_UnknownTypeIsOther ==
    inc_pc = "parsed" =>
        \A i \in 1..Len(incidents_json.items) :
            LET inc == incidents_json.items[i] IN
            (IsDict(inc) /\ Discriminator(inc) \notin RowTypes) => NoOutputFor(i)

\* C17, the markers: a period or injuryTime incident gives no output
C17_MarkerGivesNoRow ==
    inc_pc = "parsed" =>
        \A i \in 1..Len(incidents_json.items) :
            LET inc == incidents_json.items[i] IN
            (IsDict(inc) /\ Discriminator(inc) \in {JStr("period"), JStr("injuryTime")})
                => NoOutputFor(i)

RawShotType(sh) == Get(ShotRaw(sh), "shotType")

\* C18: in every shot row of parse_shotmap, is_goal iff shotType = "goal",
\* is_on_target iff shotType is "goal" or "save", is_blocked iff "block",
\* hit_post iff "post" (so "miss", no type and any other type set none);
\* is_goal implies is_on_target; is_blocked, hit_post, is_on_target exclude
\* each other.
C18_ShotFlagsFromType ==
    shot_pc = "parsed" =>
        \A sh \in SeqRange(shot_result.rows) :
            /\ sh.is_goal <=> RawShotType(sh) = JStr("goal")
            /\ sh.is_on_target <=> RawShotType(sh) \in {JStr("goal"), JStr("save")}
            /\ sh.is_blocked <=> RawShotType(sh) = JStr("block")
            /\ sh.hit_post <=> RawShotType(sh) = JStr("post")
            /\ sh.is_goal => sh.is_on_target
            /\ ~(sh.is_blocked /\ sh.hit_post)
            /\ ~(sh.is_blocked /\ sh.is_on_target)
            /\ ~(sh.hit_post /\ sh.is_on_target)

\* C18, what parse_shotmap keeps: the implications between the flags, and
\* the table for the lower-case spellings
C18_ShotFlagsConsistent ==
    shot_pc = "parsed" =>
        \A sh \in SeqRange(shot_result.rows) :
            /\ sh.is_goal => sh.is_on_target
            /\ ~(sh.is_blocked /\ sh.hit_post)
            /\ ~(sh.is_blocked /\ sh.is_on_target)
            /\ ~(sh.hit_post /\ sh.is_on_target)
            /\ RawShotType(sh) = JStr("goal") => sh.is_goal
            /\ RawShotType(sh) = JStr("save") => (sh.is_on_target /\ ~sh.is_goal)
            /\ RawShotType(sh) = JStr("block") => sh.is_blocked
            /\ RawShotType(sh) = JStr("post") => sh.hit_post
            /\ RawShotType(sh) \in {JStr("miss"), JNull, JStr("header")}
                  => ~(sh.is_goal \/ sh.is_on_target \/ sh.is_blocked \/ sh.hit_post)

\* spellings that differ from a vocabulary entry in letter case only
CaseVariants == {JStr("Goal"), JStr("SAVE"), JStr("Card"), JStr("Yellow")}

\* C19: a shotType that differs from the vocabulary in letter case only sets
\* no outcome flag, and an incident whose type discriminator does so gives
\* no card row, goal row or substitution entry.
C19_CaseSensitiveMatch ==
    /\ shot_pc = "parsed" =>
          \A sh \in SeqRange(shot_result.rows) :
              RawShotType(sh) \in CaseVariants
                  => ~(sh.is_goal \/ sh.is_on_target \/ sh.is_blocked \/ sh.hit_post)
    /\ inc_pc = "parsed" =>
          \A i \in 1..Len(incidents_json.items) :
              LET inc == incidents_json.items[i] IN
              (IsDict(inc) /\ Discriminator(inc) \in CaseVariants) => NoOutputFor(i)

\* C19, incidents whose class is not a card class: a type in another letter
\* case gives no output
C19_IncidentTypeCaseSensitive ==
    inc_pc = "parsed" =>
        \A i \in 1..Len(incidents_json.items) :
            LET inc == incidents_json.items[i] IN
            (/\ IsDict(inc)
             /\ Discriminator(inc) \in CaseVariants
             /\ Get(inc, "incidentClass") \notin CardClasses) => NoOutputFor(i)

\* the goal type the feed gives an incident: its incidentClass, "regular"
\* when it has none
RawGoalType(inc) == GetD(inc, "incidentClass", JStr("regular"))

\* C20: the type of every goal row of parse_incidents_to_cards_goals and of
\* every goal event of extract_goal_incidents is the incident's raw
\* incidentClass, "regular" when the incident has no class.
C20_GoalTypeIsClass ==
    inc_pc = "parsed" =>
        /\ \A g \in SeqRange(inc_result.goals) : g.type = RawGoalType(IncRaw(g))
        /\ \A ev \in SeqRange(goal_result.home_goals) \cup SeqRange(goal_result.away_goals) :
              ev.type = RawGoalType(IncRaw(ev))

\* C20, the goal events alone
C20_GoalEventTypeIsClass ==
    inc_pc = "parsed" =>
        \A ev \in SeqRange(goal_result.home_goals) \cup SeqRange(goal_result.away_goals) :
            /\ ev.type = RawGoalType(IncRaw(ev))
            /\ ev.type # Get(IncRaw(ev), "incidentType")

(***************************************************************************)
(* CLAIMS about Fetch & Diff (SpecDiff).                                   *)
(***************************************************************************)
\* the natural keys of the two variants
NaturalCardKey(r) ==
    <<r.player_id, r.team_id, r.card_minute, r.added_time, r.yellow, r.yellow_2, r.red>>
NaturalGoalKey(r) ==
    <<r.player_id, r.team_id, r.goal_minute, r.added_time, r.type, r.is_own_goal>>

StoredCardKeys == {NaturalCardKey(r) : r \in SeqRange(stored_cards)}
StoredGoalKeys == {NaturalGoalKey(r) : r \in SeqRange(stored_goals)}

InFeedOrder(rows) ==
    \A j, k \in 1..Len(rows) : j < k => rows[j].item < rows[k].item

\* C21: right after a Fetch & Diff, a parsed card row is proposed iff its
\* key (player_id, team_id, card_minute, added_time, yellow, yellow_2, red)
\* is not stored for the fixture, a parsed goal row iff its key (player_id,
\* team_id, goal_minute, added_time, type, is_own_goal) is not stored, and
\* the proposed rows are in feed order.
C21_DiffByNaturalKey ==
    (diff_pc = "diffed" /\ inserted = {}) =>
        /\ \A c \in SeqRange(inc_result.cards) :
              c \in SeqRange(new_cards) <=> NaturalCardKey(c) \notin StoredCardKeys
        /\ \A g \in SeqRange(inc_result.goals) :
              g \in SeqRange(new_goals) <=> NaturalGoalKey(g) \notin StoredGoalKeys
        /\ SeqRange(new_cards) \subseteq SeqRange(inc_result.cards)
        /\ SeqRange(new_goals) \subseteq SeqRange(inc_result.goals)
        /\ InFeedOrder(new_cards) /\ InFeedOrder(new_goals)

C21_Witness ==
    /\ diff_pc = "diffed" /\ inserted = {} /\ diff_round = 1
    /\ Len(inc_result.cards) = 2
    /\ Len(stored_cards) = 1
    /\ Len(new_cards) = 1
    /\ NaturalCardKey(inc_result.cards[1]) \in StoredCardKeys
    /\ new_cards[1] = inc_result.cards[2]

\* C25: once a round has inserted every row it proposed, each later
\* Fetch & Diff on the same feed proposes no card row and no goal row, and
\* the stored rows do not change any more.
C25_IdempotentIngest ==
    /\ [](  (diff_pc = "diffed" /\ prev_complete)
              => (new_cards = <<>> /\ new_goals = <<>>))
    /\ [][ (diff_pc = "diffed" /\ prev_complete)
              => (stored_cards' = stored_cards /\ stored_goals' = stored_goals) ]_vars

C25_Witness ==
    /\ diff_pc = "diffed" /\ prev_complete /\ diff_round = 3
    /\ Len(incidents_json.items) = 2
    /\ Len(stored_goals) = 2
    /\ Len(stored_cards) = 1
    /\ stored_goals[2].added_time = JInt(3)
    /\ new_cards = <<>> /\ new_goals = <<>>

\* C26: the rows proposed by one Fetch & Diff never hold two rows with the
\* same natural key.
C26_ProposedKeysDistinct ==
    diff_pc = "diffed" =>
        /\ \A j, k \in 1..Len(new_cards) :
              j # k => NaturalCardKey(new_cards[j]) # NaturalCardKey(new_cards[k])
        /\ \A j, k \in 1..Len(new_goals) :
              j # k => NaturalGoalKey(new_goals[j]) # NaturalGoalKey(new_goals[k])

(***************************************************************************)
(* CLAIMS about the goal events of extract_goal_incidents.                 *)
(***************************************************************************)
GoalEvents == SeqRange(goal_result.home_goals) \cup SeqRange(goal_result.away_goals)

\* C24: for every goal event, the half in which the goal marker is drawn
\* ("1st" iff minute + addedTime < 45 + injury_time_1) is the half
\* extract_goal_incidents gave the goal ("1st" iff minute <= 45), with
\* injury_time_1 the first-half injury time extract_goal_incidents returned.
C24_MarkerHalfAgrees ==
    (inc_pc = "parsed" /\ ~goal_result.raised) =>
        \A ev \in GoalEvents :
            GoalMarkerHalf(ev, goal_result.max_injuryTime1) = ev.half

IsGoalIncident(inc) == IsDict(inc) /\ Get(inc, "incidentType") = JStr("goal")

\* the added times of the goals of one half ("1st": time <= 45)
AddedTimesOfHalf(items, first) ==
    {items[i].addedTime.n : i \in {j \in 1..Len(items) :
        /\ IsGoalIncident(items[j])
        /\ items[j].time.t = "int"
        /\ (items[j].time.n <= 45) = first
        /\ items[j].addedTime.t = "int"}}

SetMax(S) == CHOOSE m \in S : \A x \in S : x <= m

TimesListed(i) ==
    Cardinality({k \in 1..Len(goal_result.home_goals) : goal_result.home_goals[k].item = i})
      + Cardinality({k \in 1..Len(goal_result.away_goals) : goal_result.away_goals[k].item = i})

\* C28: when extract_goal_incidents returns, its first-half injury time is
\* the maximum of time.injuryTime1 and the addedTime of every goal with
\* time <= 45, its second-half one the maximum of time.injuryTime2 and the
\* addedTime of every goal with time > 45 (so neither is below its input);
\* every goal incident is in exactly one of home_goals / away_goals and no
\* other incident is in either.
C28_InjuryTimesAreRunningMaxima ==
    (inc_pc = "parsed" /\ incidents_json.shape = "dict" /\ ~goal_result.raised) =>
        LET items == incidents_json.items IN
        /\ goal_result.max_injuryTime1
              = SetMax({base_injuryTime1} \cup AddedTimesOfHalf(items, TRUE))
        /\ goal_result.max_injuryTime2
              = SetMax({base_injuryTime2} \cup AddedTimesOfHalf(items, FALSE))
        /\ goal_result.max_injuryTime1 >= base_injuryTime1
        /\ goal_result.max_injuryTime2 >= base_injuryTime2
        /\ \A i \in 1..Len(items) :
              TimesListed(i) = (IF IsGoalIncident(items[i]) THEN 1 ELSE 0)
        /\ \A ev \in GoalEvents : ev.item \in 1..Len(items)

C28_Witness ==
    /\ inc_pc = "parsed" /\ incidents_json.shape = "dict" /\ ~goal_result.raised
    /\ Len(incidents_json.items) = 2
    /\ Len(goal_result.away_goals) = 2
    /\ goal_result.away_goals[1].addedTime = JInt(3)
    /\ goal_result.away_goals[1].half = "1st"
    /\ goal_result.away_goals[2].addedTime = JInt(0)
    /\ goal_result.away_goals[2].half = "1st"
    /\ goal_result.max_injuryTime1 = 3
    /\ goal_result.max_injuryTime2 = base_injuryTime2

C28_WitnessBothSides ==
    /\ inc_pc = "parsed" /\ ~goal_result.raised
    /\ Len(goal_result.home_goals) = 1 /\ Len(goal_result.away_goals) = 1
    /\ goal_result.away_goals[1].half = "2nd"
    /\ goal_result.max_injuryTime2 = 899


(***************************************************************************)
(* C29: extract_unique_players                                             *)
(***************************************************************************)
\* positions of the input records that carry pid
PositionsOf(pid) == {k \in 1..Len(all_players) : all_players[k].player_id = pid}

\* the earliest input record of pid among those with the fewest null fields
EarliestMostComplete(pid) ==
    CHOOSE k \in PositionsOf(pid) :
        /\ \A j \in PositionsOf(pid) : NullCount(all_players[k]) <= NullCount(all_players[j])
        /\ \A j \in PositionsOf(pid) :
              NullCount(all_players[j]) = NullCount(all_players[k]) => k <= j

KeptPids == {unique_players[i].player_id : i \in 1..Len(unique_players)}
UsablePids == {all_players[k].player_id : k \in 1..Len(all_players)} \ {JNull, JInt(0)}

C29_WitnessDropped ==
    /\ uniq_pc = "again"
    /\ Len(all_players) = 3
    /\ all_players[1].player_id = JInt(0)
    /\ Len(unique_players) = 2

(***************************************************************************)
(* C30: upsert_managers_and_link_fixture                                   *)
(***************************************************************************)
ResolvedPk(side) ==
    IF side = "home" THEN mgr_call.home_manager_id ELSE mgr_call.away_manager_id

SideUsable(side) ==
    /\ IsDict(mgr_rows_dict[side])
    /\ Truthy(mgr_rows_dict[side].manager_id)
    /\ Truthy(mgr_rows_dict[side].team_id)

SideReturned(side) ==
    \E r \in mgr_call.returned :
        /\ r.manager_id = mgr_rows_dict[side].manager_id
        /\ r.team_id = mgr_rows_dict[side].team_id
        /\ ~IsNone(r.id)

\* C30: upsert_managers_and_link_fixture writes a side's manager link only
\* when a non-null primary key was resolved for it; a side whose manager is
\* missing, lacks manager_id or team_id, or is not returned by the read-back
\* keeps its column; with no usable row nothing is written and the status is
\* "no-managers".
C30_LinkOnlyResolvedSides ==
    mgr_pc = "done" =>
        /\ \A side \in {"home", "away"} :
              /\ mgr_fixture[side] # mgr_before[side] =>
                    ~IsNone(ResolvedPk(side)) /\ mgr_fixture[side] = ResolvedPk(side)
              /\ (~SideUsable(side) \/ ~SideReturned(side)) =>
                    mgr_fixture[side] = mgr_before[side]
              /\ ~IsNone(mgr_before[side]) => ~IsNone(mgr_fixture[side])
        /\ (~SideUsable("home") /\ ~SideUsable("away")) =>
              /\ mgr_call.status = "no-managers"
              /\ mgr_call.upserted = <<>>
              /\ ~mgr_call.updated
              /\ mgr_fixture = mgr_before

\* the home link is replaced by the resolved key while the away side, whose
\* manager has no manager_id, keeps the link it had
C30_Witness ==
    /\ mgr_pc = "done"
    /\ mgr_before = [home |-> JInt(500), away |-> JInt(500)]
    /\ mgr_fixture = [home |-> JInt(900), away |-> JInt(500)]
    /\ IsDict(mgr_rows_dict.away) /\ IsNone(mgr_rows_dict.away.manager_id)

\* no usable row: nothing is upserted and the fixture keeps both links
C30_WitnessNoManagers ==
    /\ mgr_pc = "done"
    /\ mgr_call.status = "no-managers"
    /\ IsDict(mgr_rows_dict.home)
    /\ mgr_fixture = [home |-> JInt(500), away |-> JInt(500)]


(***************************************************************************)
(* C22, C23, C27: the season-level batch loops                             *)
(***************************************************************************)
IsPrefix(a, b) == Len(a) <= Len(b) /\ SubSeq(b, 1, Len(a)) = a

\* positions of the fixtures whose iteration ended in the except branch
RaisedAt == {k \in 1..Len(batch_outcomes) : Raised(batch_kind, batch_outcomes[k])}

\* the feed every iteration of a loop fetches first
FirstFeed ==
    CASE batch_kind = "shots" -> "shotmap"
      [] batch_kind = "players" -> "lineups"
      [] batch_kind = "statistics" -> "statistics"
      [] OTHER -> "managers"

FetchesOf(k) ==
    {j \in 1..Len(batch.fetched) : batch.fetched[j] = <<k, FirstFeed>>}

HasIds(fixture) ==
    /\ Truthy(fixture.fixture_id) /\ Truthy(fixture.home_team_id)
    /\ Truthy(fixture.away_team_id)

\* every failure so far is recorded
FailuresRecorded ==
    IF batch_kind = "managers"
    THEN \A k \in 1..Len(batch_outcomes) :
            (k \in RaisedAt) <=> (batch.results[k].status = "error")
    ELSE /\ Cardinality(RaisedAt) <= batch.error_count
         /\ batch_kind \in {"shots", "statistics"} =>
               Cardinality(RaisedAt) = batch.error_count

\* the loop has been through every fixture once, in order
EveryFixtureOnce ==
    /\ batch_idx = Len(fixtures)
    /\ Len(batch_outcomes) = Len(fixtures)
    /\ \A k \in 1..Len(fixtures) :
          Cardinality(FetchesOf(k)) =
              IF batch_kind = "managers" /\ ~HasIds(fixtures[k]) THEN 0 ELSE 1

\* one iteration takes the next fixture and keeps what was accumulated
KeepsEarlierRows ==
    /\ batch_idx' = batch_idx + 1
    /\ IsPrefix(batch.all_shots, batch'.all_shots)
    /\ IsPrefix(batch.all_players, batch'.all_players)
    /\ IsPrefix(batch.all_match_rows, batch'.all_match_rows)
    /\ IsPrefix(batch.all_player_rows, batch'.all_player_rows)
    /\ IsPrefix(batch.results, batch'.results)
    /\ batch'.error_count >= batch.error_count

\* C22: in each of the four batch loops an exception raised while fetching
\* or parsing one fixture does not abort the run: the failure is recorded,
\* every fixture is processed exactly once, the rows of earlier fixtures are
\* kept, and the loop ends after the last fixture.
C22_ErrorIsolation ==
    /\ [](FailuresRecorded /\ (batch_pc = "done" => EveryFixtureOnce))
    /\ [][KeepsEarlierRows]_batch_vars
    /\ <>(batch_pc = "done")

\* a failure on the second fixture, with rows of the first kept and rows of
\* the third added after it
C22_Witness ==
    /\ batch_pc = "done" /\ batch_kind = "shots"
    /\ RaisedAt = {2}
    /\ batch.error_count = 1
    /\ batch.all_shots = RowsOf(JInt(101)) \o RowsOf(JInt(103))

C22_WitnessManagers ==
    /\ batch_pc = "done" /\ batch_kind = "managers"
    /\ RaisedAt = {1}
    /\ batch.results[1].status = "error"
    /\ batch.results[MaxFixtures].status = "linked"

\* every row the batch holds
BatchRows ==
    {batch.all_shots[j] : j \in 1..Len(batch.all_shots)}
    \cup {batch.all_players[j] : j \in 1..Len(batch.all_players)}
    \cup {batch.all_match_rows[j] : j \in 1..Len(batch.all_match_rows)}
    \cup {batch.all_player_rows[j] : j \in 1..Len(batch.all_player_rows)}

\* C23: a fixture whose processing raised leaves no rows in the batch
\* result; in the add_statistics loop, when the lineups fetch raises after
\* the statistics fetch succeeded, all_match_rows holds no row of that
\* fixture.
C23_FailedFixtureLeavesNoRows ==
    \A k \in RaisedAt :
        \A r \in BatchRows : r.fixture_id # fixtures[k].fixture_id

\* number of fixtures the add_players loop has counted
PlayersCounted ==
    batch.success_count + batch.no_players_count + batch.no_data_count + batch.error_count

WritesOf(k) == {j \in 1..Len(batch.written) : batch.written[j][1] = k}

\* C27: each fixture of the add_players loop increments exactly one of the
\* four counters, so they sum to the number of fixtures after the loop; each
\* fixture of the add_managers loop appends exactly one result whose status
\* is skipped, no-managers, linked or error, and a fixture without a
\* fixture_id or a team id is skipped without a fetch or a write.
C27_OneOutcomePerFixture ==
    /\ batch_kind = "players" =>
          /\ PlayersCounted = batch_idx
          /\ batch_pc = "done" => PlayersCounted = Len(fixtures)
    /\ batch_kind = "managers" =>
          /\ Len(batch.results) = batch_idx
          /\ batch_pc = "done" => Len(batch.results) = Len(fixtures)
          /\ \A k \in 1..Len(batch.results) :
                /\ batch.results[k].status \in {"skipped", "no-managers", "linked", "error"}
                /\ batch.results[k].fixture_id = fixtures[k].fixture_id
                /\ ~HasIds(fixtures[k]) =>
                      /\ batch.results[k].status = "skipped"
                      /\ FetchesOf(k) = {} /\ WritesOf(k) = {}

\* a managers run with a fixture without fixture_id skipped between two
\* fixtures that were fetched
C27_Witness ==
    /\ batch_kind = "managers" /\ batch_pc = "done"
    /\ IsNone(fixtures[2].fixture_id)
    /\ batch.results[2].status = "skipped"
    /\ batch.results[1].status = "linked"
    /\ batch.results[3].status = "no-managers"

\* a players run in which three different counters were incremented
C27_WitnessPlayers ==
    /\ batch_kind = "players" /\ batch_pc = "done"
    /\ batch.success_count = 1 /\ batch.no_data_count = 1 /\ batch.error_count = 1

===========================================================================
